---- MODULE Spec2Model ----
(***************************************************************************)
(* Verification model of obsidian-incident-io-periodic-sync.               *)
(*                                                                         *)
(* Text is modelled at character level: a text is a sequence of one-       *)
(* character strings, NL is the line terminator.  The string literals the  *)
(* renderer emits are abbreviated to a few characters each (the heading    *)
(* level of every literal is kept); see the definitions below.             *)
(***************************************************************************)
EXTENDS Integers, Sequences, FiniteSets, TLC

\* ------------------------------------------------------------------------
\* Bounds of the model
\* ------------------------------------------------------------------------
MaxBlocks == 3       \* blocks (see BlockSet) of an initial daily-note document
MaxOps == 2          \* reconciler operations applied to one document
MaxCalls == 2        \* syncToDaily invocations over the plugin's life
MaxBackfillDays == 2 \* largest historicalSyncDays setting explored
MaxIncidents == 2    \* longest incident list given to a function on its own
MaxItems == 6        \* most candidate incidents a sync finds
MaxSchedules == 3    \* most on-call schedules the API returns
MaxPages == 3        \* most pages a paginated listing has
MaxAttempt == 10     \* largest attempt number given to the backoff policy
MaxValueLen == 3     \* longest string given to yamlSafeValue
MaxUsers == 2        \* users answered by GET /users
MaxRenames == 2      \* renames the user makes in the incident notes folder

\* ------------------------------------------------------------------------
\* Text primitives (JavaScript String / Array methods used by the code)
\* ------------------------------------------------------------------------
NL == "\n"

Min(a, b) == IF a < b THEN a ELSE b
Max(a, b) == IF a > b THEN a ELSE b

\* /\s/ restricted to the model's alphabet
IsWs(c) == c \in {" ", NL, "\r", "\t"}

\* String.prototype.split('\n'): always at least one line
RECURSIVE SplitAcc(_, _, _)
SplitAcc(t, i, cur) ==
    IF i > Len(t) THEN <<cur>>
    ELSE IF t[i] = NL THEN <<cur>> \o SplitAcc(t, i + 1, <<>>)
    ELSE SplitAcc(t, i + 1, Append(cur, t[i]))
Split(t) == SplitAcc(t, 1, <<>>)

\* Array.prototype.join('\n')
RECURSIVE Join(_)
Join(ls) ==
    IF ls = <<>> THEN <<>>
    ELSE IF Len(ls) = 1 THEN ls[1]
    ELSE ls[1] \o <<NL>> \o Join(Tail(ls))

\* Array.prototype.slice(from, to) with 0-based, clamped indices
Slice(ls, from, to) ==
    LET f == Min(Max(from, 0), Len(ls))
        e == Min(Max(to, 0), Len(ls))
    IN  IF f >= e THEN <<>> ELSE SubSeq(ls, f + 1, e)

\* String.prototype.trimEnd / trimStart / trim
RECURSIVE TrimEnd(_)
TrimEnd(t) ==
    IF t = <<>> THEN <<>>
    ELSE IF IsWs(t[Len(t)]) THEN TrimEnd(SubSeq(t, 1, Len(t) - 1))
    ELSE t
RECURSIVE TrimStart(_)
TrimStart(t) ==
    IF t = <<>> THEN <<>>
    ELSE IF IsWs(t[1]) THEN TrimStart(Tail(t))
    ELSE t
Trim(t) == TrimStart(TrimEnd(t))

\* length of the run of newlines starting at position i
RECURSIVE NlRun(_, _)
NlRun(t, i) ==
    IF i > Len(t) \/ t[i] # NL THEN 0 ELSE 1 + NlRun(t, i + 1)

\* content.replace(/\n{3,}/g, '\n\n')
RECURSIVE CollapseFrom(_, _)
CollapseFrom(t, i) ==
    IF i > Len(t) THEN <<>>
    ELSE LET r == NlRun(t, i)
         IN  IF r >= 3 THEN <<NL, NL>> \o CollapseFrom(t, i + r)
             ELSE IF r > 0 THEN SubSeq(t, i, i + r - 1) \o CollapseFrom(t, i + r)
             ELSE <<t[i]>> \o CollapseFrom(t, i + 1)
CollapseBlankLines(t) == CollapseFrom(t, 1)

\* number of leading '#' characters
RECURSIVE HashRun(_, _)
HashRun(t, i) ==
    IF i > Len(t) \/ t[i] # "#" THEN 0 ELSE 1 + HashRun(t, i + 1)

\* sectionHeader.replace(/^#+\s*/, '').trim()
SectionHeaderText(header) ==
    LET h == HashRun(header, 1)
    IN  IF h = 0 THEN Trim(header)
        ELSE Trim(SubSeq(header, h + 1, Len(header)))

\* ------------------------------------------------------------------------
\* Time: an instant is an integer; one calendar day is DayLen instants
\* (DayLen stands for the 86400000 ms of a day).
\* ------------------------------------------------------------------------
DayLen == 2
NoTime == -1

\* new Date(d).setHours(0, 0, 0, 0)
StartOfDay(t) == (t \div DayLen) * DayLen
\* new Date(d).setHours(23, 59, 59, 999)
EndOfDay(t) == StartOfDay(t) + DayLen - 1

\* ------------------------------------------------------------------------
\* Section Renderer (DailyNoteManager, src/src/daily-note.ts)
\* ------------------------------------------------------------------------
\* Abbreviations of the literals pushed by formatSyncResultForDate
OnCallHeading == <<"#", "#", "#", " ", "O">>       \* '### On-Call'
OnCallPrefix == <<"-", " ", "c">>                   \* '- On-call for: '
NotOnCallLine == <<"_", "n">>                       \* '_Not on-call today_'
IncidentsHeading == <<"#", "#", "#", " ", "I">>    \* '### Active Incidents'
NoIncidentsLine == <<"_", "z">>                     \* "_No incidents you're leading_"

\* schedules.join(', ')
RECURSIVE JoinComma(_)
JoinComma(names) ==
    IF names = <<>> THEN <<>>
    ELSE IF Len(names) = 1 THEN <<names[1]>>
    ELSE <<names[1], ",", " ">> \o JoinComma(Tail(names))

\* formatIncidentLink with useWikilinks = true: '- [[folder/ref|ref: name]]'
formatIncidentLink(inc) == <<"-", " ", "[", inc.reference, "]">>

\* variant: an incident closed on the day is dropped unless it closed at the
\* day's last instant or later
isActiveOn_ClosedByEndOfDay(inc, date) ==
    /\ inc.created_at <= EndOfDay(date)
    /\ inc.closed_at = NoTime \/ inc.closed_at >= EndOfDay(date)

isActiveOn(inc, date) ==
    LET createdBeforeOrOn == inc.created_at <= EndOfDay(date)
        stillOpenOnDate == inc.closed_at = NoTime \/ inc.closed_at >= StartOfDay(date)
    IN  createdBeforeOrOn /\ stillOpenOnDate

RECURSIVE filterIncidentsForDate(_, _)
filterIncidentsForDate(incidents, date) ==
    IF incidents = <<>> THEN <<>>
    ELSE IF isActiveOn(incidents[1], date)
    THEN <<incidents[1]>> \o filterIncidentsForDate(Tail(incidents), date)
    ELSE filterIncidentsForDate(Tail(incidents), date)

RECURSIVE MapLinks(_)
MapLinks(incs) ==
    IF incs = <<>> THEN <<>>
    ELSE <<formatIncidentLink(incs[1])>> \o MapLinks(Tail(incs))

\* variant: the on-call subsection is rendered for every target date
OnCallLines_AnyDay(s, result, date, now) ==
    IF s.showOnCall
    THEN IF result.onCall.present /\ Len(result.onCall.schedules) > 0
         THEN <<OnCallHeading, OnCallPrefix \o JoinComma(result.onCall.schedules), <<>>>>
         ELSE IF ~s.omitEmptySections
         THEN <<OnCallHeading, NotOnCallLine, <<>>>>
         ELSE <<>>
    ELSE <<>>

\* the lines pushed for the on-call subsection
OnCallLines(s, result, date, clock) ==
    LET isToday == StartOfDay(clock) = StartOfDay(date)
    IN  IF s.showOnCall /\ isToday
        THEN IF result.onCall.present /\ Len(result.onCall.schedules) > 0
             THEN <<OnCallHeading, OnCallPrefix \o JoinComma(result.onCall.schedules), <<>>>>
             ELSE IF ~s.omitEmptySections
             THEN <<OnCallHeading, NotOnCallLine, <<>>>>
             ELSE <<>>
        ELSE <<>>

\* the lines pushed for the incidents subsection
IncidentLines(s, result, date) ==
    IF s.showIncidents
    THEN LET incidentsOnDate == filterIncidentsForDate(result.fullIncidents, date)
         IN  IF incidentsOnDate # <<>>
             THEN <<IncidentsHeading>> \o MapLinks(incidentsOnDate) \o <<<<>>>>
             ELSE IF ~s.omitEmptySections
             THEN <<IncidentsHeading, NoIncidentsLine, <<>>>>
             ELSE <<>>
    ELSE <<>>

\* variant: no early return of the empty string
formatSyncResultForDate_NeverEmpty(s, result, date, now) ==
    TrimEnd(Join(<<s.sectionHeader, <<>>>> \o OnCallLines(s, result, date, now)
                     \o IncidentLines(s, result, date)))

formatSyncResultForDate(s, result, date, clock) ==
    LET lines == <<s.sectionHeader, <<>>>> \o OnCallLines(s, result, date, clock)
                     \o IncidentLines(s, result, date)
    IN  IF Len(lines) = 2 /\ s.omitEmptySections THEN <<>>
        ELSE TrimEnd(Join(lines))

\* ------------------------------------------------------------------------
\* Heading index of the document store (metadataCache.getFileCache().headings):
\* one entry per ATX heading line, in document order: heading text, level
\* and 0-based line number.
\* ------------------------------------------------------------------------
IsHeadingLine(line) ==
    LET h == HashRun(line, 1)
    IN  h >= 1 /\ h <= 6 /\ (Len(line) = h \/ line[h + 1] = " ")

RECURSIVE HeadingsFrom(_, _)
HeadingsFrom(lines, i) ==
    IF i > Len(lines) THEN <<>>
    ELSE IF IsHeadingLine(lines[i])
    THEN LET h == HashRun(lines[i], 1)
         IN  <<[heading |-> Trim(SubSeq(lines[i], h + 1, Len(lines[i]))),
                level |-> h, line |-> i - 1]>> \o HeadingsFrom(lines, i + 1)
    ELSE HeadingsFrom(lines, i + 1)
HeadingsOf(text) == HeadingsFrom(Split(text), 1)

\* ------------------------------------------------------------------------
\* Section Reconciler (DailyNoteManager.updateDailyNote / removeSectionFromNote)
\* ------------------------------------------------------------------------
\* headings.find(heading => heading.heading.trim() === sectionHeaderText),
\* as the 1-based position in the index, 0 when nothing is found
RECURSIVE UpdateFindHeading(_, _, _)
UpdateFindHeading(headings, sectionHeaderText, i) ==
    IF i > Len(headings) THEN 0
    ELSE IF Trim(headings[i].heading) = sectionHeaderText THEN i
    ELSE UpdateFindHeading(headings, sectionHeaderText, i + 1)

\* mutant: a heading of the same level does not end the section
RECURSIVE UpdateEndLineNum_Strict(_, _, _, _, _)
UpdateEndLineNum_Strict(headings, i, sectionLineNum, level, nLines) ==
    IF i > Len(headings) THEN nLines
    ELSE IF headings[i].line > sectionLineNum /\ headings[i].level < level
    THEN headings[i].line
    ELSE UpdateEndLineNum_Strict(headings, i + 1, sectionLineNum, level, nLines)

\* the loop that finds the end of the section in updateDailyNote
RECURSIVE UpdateEndLineNum(_, _, _, _, _)
UpdateEndLineNum(headings, i, sectionLineNum, level, nLines) ==
    IF i > Len(headings) THEN nLines
    ELSE IF headings[i].line > sectionLineNum /\ headings[i].level <= level
    THEN headings[i].line
    ELSE UpdateEndLineNum(headings, i + 1, sectionLineNum, level, nLines)

\* mutant: the body is appended after a single newline
UpdateDailyNoteText_OneNewline(content, headings, header, sectionContent) ==
    LET sectionHeaderText == SectionHeaderText(header)
        idx == UpdateFindHeading(headings, sectionHeaderText, 1)
    IN  IF idx # 0
        THEN LET lines == Split(content)
                 sectionLineNum == headings[idx].line
                 endLineNum == UpdateEndLineNum(headings, 1, sectionLineNum,
                                                headings[idx].level, Len(lines))
                 beforeSection == Join(Slice(lines, 0, sectionLineNum))
                 afterSection == Join(Slice(lines, endLineNum, Len(lines)))
             IN  [found |-> TRUE, start |-> sectionLineNum, end |-> endLineNum,
                  commit |-> TRUE,
                  text |-> beforeSection
                           \o (IF beforeSection # <<>> THEN <<NL>> ELSE <<>>)
                           \o sectionContent
                           \o (IF afterSection # <<>> THEN <<NL>> ELSE <<>>)
                           \o afterSection]
        ELSE [found |-> FALSE, start |-> 0, end |-> 0, commit |-> TRUE,
              text |-> content \o <<NL>> \o sectionContent]

\* mutant: a replaced body is set off by an empty line on each side
UpdateDailyNoteText_BlankLines(content, headings, header, sectionContent) ==
    LET sectionHeaderText == SectionHeaderText(header)
        idx == UpdateFindHeading(headings, sectionHeaderText, 1)
    IN  IF idx # 0
        THEN LET lines == Split(content)
                 sectionLineNum == headings[idx].line
                 endLineNum == UpdateEndLineNum(headings, 1, sectionLineNum,
                                                headings[idx].level, Len(lines))
                 beforeSection == Join(Slice(lines, 0, sectionLineNum))
                 afterSection == Join(Slice(lines, endLineNum, Len(lines)))
             IN  [found |-> TRUE, start |-> sectionLineNum, end |-> endLineNum,
                  commit |-> TRUE,
                  text |-> beforeSection
                           \o (IF beforeSection # <<>> THEN <<NL, NL>> ELSE <<>>)
                           \o sectionContent
                           \o (IF afterSection # <<>> THEN <<NL, NL>> ELSE <<>>)
                           \o afterSection]
        ELSE [found |-> FALSE, start |-> 0, end |-> 0, commit |-> TRUE,
              text |-> content \o <<NL, NL>> \o sectionContent]

\* updateDailyNote from the read of the document to the text it commits;
\* sectionContent is non-empty or omitEmptySections is off
UpdateDailyNoteText(content, headings, header, sectionContent) ==
    LET sectionHeaderText == SectionHeaderText(header)
        idx == UpdateFindHeading(headings, sectionHeaderText, 1)
    IN  IF idx # 0
        THEN LET lines == Split(content)
                 sectionLineNum == headings[idx].line
                 endLineNum == UpdateEndLineNum(headings, 1, sectionLineNum,
                                                headings[idx].level, Len(lines))
                 beforeSection == Join(Slice(lines, 0, sectionLineNum))
                 afterSection == Join(Slice(lines, endLineNum, Len(lines)))
             IN  [found |-> TRUE, start |-> sectionLineNum, end |-> endLineNum,
                  commit |-> TRUE,
                  text |-> beforeSection
                           \o (IF beforeSection # <<>> THEN <<NL>> ELSE <<>>)
                           \o sectionContent
                           \o (IF afterSection # <<>> THEN <<NL>> ELSE <<>>)
                           \o afterSection]
        ELSE [found |-> FALSE, start |-> 0, end |-> 0, commit |-> TRUE,
              text |-> content \o <<NL, NL>> \o sectionContent]

RECURSIVE RemoveFindHeading(_, _, _)
RemoveFindHeading(headings, sectionHeaderText, i) ==
    IF i > Len(headings) THEN 0
    ELSE IF Trim(headings[i].heading) = sectionHeaderText THEN i
    ELSE RemoveFindHeading(headings, sectionHeaderText, i + 1)

\* the loop that finds the end of the section in removeSectionFromNote
RECURSIVE RemoveEndLineNum(_, _, _, _, _)
RemoveEndLineNum(headings, i, sectionLineNum, level, nLines) ==
    IF i > Len(headings) THEN nLines
    ELSE IF headings[i].line > sectionLineNum /\ headings[i].level <= level
    THEN headings[i].line
    ELSE RemoveEndLineNum(headings, i + 1, sectionLineNum, level, nLines)

\* mutant: the blank-line runs left by the removal are not collapsed
RemoveSectionText_NoCollapse(content, headings, header) ==
    LET sectionHeaderText == SectionHeaderText(header)
        idx == RemoveFindHeading(headings, sectionHeaderText, 1)
    IN  IF idx = 0
        THEN [found |-> FALSE, start |-> 0, end |-> 0, commit |-> FALSE,
              text |-> content]
        ELSE LET lines == Split(content)
                 sectionLineNum == headings[idx].line
                 endLineNum == RemoveEndLineNum(headings, 1, sectionLineNum,
                                                headings[idx].level, Len(lines))
                 beforeSection == Join(Slice(lines, 0, sectionLineNum))
                 afterSection == Join(Slice(lines, endLineNum, Len(lines)))
             IN  [found |-> TRUE, start |-> sectionLineNum, end |-> endLineNum,
                  commit |-> TRUE,
                  text |-> Trim(beforeSection \o afterSection)]

\* mutant: a section that is not found still has the normalised text committed
RemoveSectionText_CommitAlways(content, headings, header) ==
    LET sectionHeaderText == SectionHeaderText(header)
        idx == RemoveFindHeading(headings, sectionHeaderText, 1)
        lines == Split(content)
        sectionLineNum == IF idx = 0 THEN Len(lines) ELSE headings[idx].line
        endLineNum == IF idx = 0 THEN Len(lines)
                      ELSE RemoveEndLineNum(headings, 1, sectionLineNum,
                                            headings[idx].level, Len(lines))
        beforeSection == Join(Slice(lines, 0, sectionLineNum))
        afterSection == Join(Slice(lines, endLineNum, Len(lines)))
    IN  [found |-> idx # 0, start |-> IF idx = 0 THEN 0 ELSE sectionLineNum,
         end |-> IF idx = 0 THEN 0 ELSE endLineNum, commit |-> TRUE,
         text |-> Trim(CollapseBlankLines(beforeSection \o afterSection))]

\* removeSectionFromNote from the read of the document to the text it
\* commits (commit = FALSE: it returns without calling vault.process)
RemoveSectionText(content, headings, header) ==
    LET sectionHeaderText == SectionHeaderText(header)
        idx == RemoveFindHeading(headings, sectionHeaderText, 1)
    IN  IF idx = 0
        THEN [found |-> FALSE, start |-> 0, end |-> 0, commit |-> FALSE,
              text |-> content]
        ELSE LET lines == Split(content)
                 sectionLineNum == headings[idx].line
                 endLineNum == RemoveEndLineNum(headings, 1, sectionLineNum,
                                                headings[idx].level, Len(lines))
                 beforeSection == Join(Slice(lines, 0, sectionLineNum))
                 afterSection == Join(Slice(lines, endLineNum, Len(lines)))
             IN  [found |-> TRUE, start |-> sectionLineNum, end |-> endLineNum,
                  commit |-> TRUE,
                  text |-> Trim(CollapseBlankLines(beforeSection \o afterSection))]

\* ------------------------------------------------------------------------
\* State
\* ------------------------------------------------------------------------
VARIABLES
    vault,      \* day -> [exists, text]: the daily-note document of each day
    cache,      \* day -> [present, headings]: the store's heading index
    settings,   \* the plugin settings object
    clock,      \* the current instant (new Date())
    last,       \* what the most recent reconciler call read, used and committed
    nOps,       \* number of reconciler calls made directly (SpecDoc)
    notes,      \* incident reference -> [exists, text]: the incident notes
    isSyncing,  \* the plugin's in-flight flag
    api,        \* TRUE when this.api is an API client (a key is configured)
    remote,     \* what the remote API holds: the SyncResult syncData resolves to
    cycles,     \* call number -> state of that syncToDaily invocation
    nCalls,     \* number of syncToDaily invocations made
    req,        \* one logical request of the API client (IncidentIOAPI.request)
    sync,       \* one syncData call: its position, its batches, what it returned
    details,    \* one getFullIncidentDetails call and its five sub-fetches
    oncall,     \* one getOnCallSchedules call and its per-schedule checks
    query,      \* inputs and result of a pure function applied on its own
    pager,      \* one getAllIncidentsPaginated call: its requests and pages
    folder,     \* the incident notes folder: path -> document, and the renames made
    timer       \* auto-sync: settings, API client, timers, settings action under way

docVars == <<vault, cache, settings, clock, last, nOps, notes>>
pluginVars == <<isSyncing, api, remote, cycles, nCalls>>
apiVars == <<req, sync, details, oncall, query, pager, folder, timer>>
vars == <<vault, cache, settings, clock, last, nOps, notes,
          isSyncing, api, remote, cycles, nCalls,
          req, sync, details, oncall, query, pager, folder, timer>>

Days == 0..MaxBackfillDays
Today == clock \div DayLen
DateOf(d) == d * DayLen

NoFile == [exists |-> FALSE, text |-> <<>>]
NoCache == [present |-> FALSE, headings |-> <<>>]
NoResult == [onCall |-> [present |-> FALSE, schedules |-> <<>>], fullIncidents |-> <<>>]
\* DEFAULT_SETTINGS (the fields the model uses)
DefaultSettings ==
    [sectionHeader |-> <<"#", "#", " ", "S">>, showOnCall |-> TRUE,
     showIncidents |-> TRUE, omitEmptySections |-> TRUE,
     historicalSyncDays |-> 0, updatePreviousDailyNotes |-> FALSE]

NoOutcome == [found |-> FALSE, start |-> 0, end |-> 0, commit |-> FALSE, text |-> <<>>]
NoCall == [op |-> "none", day |-> 0, date |-> 0, result |-> NoResult, ok |-> FALSE,
           s |-> DefaultSettings, now |-> 0,
           read |-> <<>>, headings |-> <<>>, fresh |-> FALSE, header |-> <<>>,
           body |-> <<>>, found |-> FALSE, start |-> 0, end |-> 0,
           commit |-> FALSE, text |-> <<>>, failed |-> FALSE, current |-> <<>>,
           prevOp |-> "none", prevDay |-> 0, prevDate |-> 0, prevResult |-> NoResult,
           prevFresh |-> FALSE, prevHeadings |-> <<>>]

\* the record of one reconciler call: its arguments, the settings and the
\* instant at which the body was rendered, what it read (document text,
\* heading index, section header), the body, the range it located and the
\* text it committed, and the text the document holds when the call ends
\* (before its commit, if it commits); prev* are the arguments of the call
\* made before it
CallRecord(opName, d, date, result, ok, sAt, nowAt, content, headings, header, body, out) ==
    [op |-> opName, day |-> d, date |-> date, result |-> result, ok |-> ok,
     s |-> sAt, now |-> nowAt,
     read |-> content, headings |-> headings,
     fresh |-> ok /\ headings = HeadingsOf(content), header |-> header,
     body |-> body, found |-> out.found, start |-> out.start, end |-> out.end,
     commit |-> out.commit, text |-> out.text, failed |-> FALSE,
     current |-> IF d \in Days THEN vault[d].text ELSE <<>>,
     prevOp |-> last.op, prevDay |-> last.day, prevDate |-> last.date,
     prevResult |-> last.result, prevFresh |-> last.fresh,
     prevHeadings |-> last.headings]

\* a call that found no daily note for its date
NoNoteRecord(opName, d, date, result) ==
    CallRecord(opName, d, date, result, FALSE, settings, clock,
               <<>>, <<>>, <<>>, <<>>, NoOutcome)

\* a call that ended in its catch block: a document operation rejected
FailedRecord(record) == [record EXCEPT !.failed = TRUE]

\* the incident notes: none exists
NoteRefs == {"1"}
NoNotes == [r \in NoteRefs |-> NoFile]
\* formatIncidentContent: the front matter names the incident, the body
\* tells whether it is closed
formatIncidentContent(incident) ==
    <<"-", incident.reference, "-", NL,
      IF incident.closed_at = NoTime THEN "o" ELSE "c">>
\* an incident note written by an earlier sync, or by hand
StaleNote == [exists |-> TRUE, text |-> <<"-", "1", "-", NL, "x">>]
\* syncIncidents: createOrUpdateIncidentNote for each incident in turn (the
\* results explored hold at most one incident)
RECURSIVE syncIncidents(_, _)
syncIncidents(ns, incidents) ==
    IF incidents = <<>> THEN ns
    ELSE syncIncidents([ns EXCEPT ![incidents[1].reference] =
                            [exists |-> TRUE,
                             text |-> formatIncidentContent(incidents[1])]],
                       Tail(incidents))

\* fileCache?.headings || []
CachedHeadings(d) == IF cache[d].present THEN cache[d].headings ELSE <<>>

\* Inputs explored
HeaderSet == {<<"#", "#", " ", "S">>, <<"#", "#", "#", " ", "S">>}
\* an initial document is up to MaxBlocks blocks joined by newlines; a block
\* is an empty line, a text line, a heading line or two empty lines
BlockSet == {<<>>, <<"a">>, <<"#", "#", " ", "S">>, <<"#", " ", "T">>, <<NL>>}
InitDocs == {Join(ls) : ls \in UNION {[1..n -> BlockSet] : n \in 1..MaxBlocks}}

IncidentSet == {[reference |-> "1", created_at |-> DateOf(MaxBackfillDays), closed_at |-> NoTime]}
ResultSet ==
    {[onCall |-> oc, fullIncidents |-> incs] :
        oc \in {[present |-> FALSE, schedules |-> <<>>],
                 [present |-> TRUE, schedules |-> <<"x">>]},
        incs \in {<<>>} \cup {<<i>> : i \in IncidentSet}}
\* the two extreme results, for the runs over many documents
DocResultSet ==
    {r \in ResultSet : r.onCall.present <=> r.fullIncidents # <<>>}

SettingsSet ==
    [sectionHeader : HeaderSet, showOnCall : BOOLEAN, showIncidents : BOOLEAN,
     omitEmptySections : BOOLEAN, historicalSyncDays : 0..MaxBackfillDays,
     updatePreviousDailyNotes : BOOLEAN]
\* for the runs over many documents: both subsections shown and omitted when
\* empty (full body or removal), or both hidden (header-only body)
DocSettingsSet ==
    {s \in SettingsSet : /\ s.showOnCall = s.showIncidents
                         /\ s.omitEmptySections = s.showOnCall
                         /\ s.historicalSyncDays = 0
                         /\ ~s.updatePreviousDailyNotes}

\* days processed by backfillDailyNotes when historicalSyncDays is not set
DefaultBackfillDays == 30

\* the last instant the clock reaches
MaxClock == DateOf(MaxBackfillDays)

\* inputs of the plugin runs: every toggle setting with backfill off and with
\* backfill over the largest window; the default window with the default toggles
PluginSettingsSet ==
    {s \in SettingsSet :
        /\ s.sectionHeader = DefaultSettings.sectionHeader
        /\ \/ ~s.updatePreviousDailyNotes /\ s.historicalSyncDays = 0
           \/ s.updatePreviousDailyNotes /\ s.historicalSyncDays = MaxBackfillDays
           \/ /\ s.updatePreviousDailyNotes /\ s.historicalSyncDays = 0
              /\ s.showOnCall /\ s.showIncidents /\ s.omitEmptySections}
\* one incident, open since the day before the last day
PluginResultSet ==
    {[onCall |-> oc, fullIncidents |-> incs] :
        oc \in {[present |-> FALSE, schedules |-> <<>>],
                 [present |-> TRUE, schedules |-> <<"x">>]},
        incs \in {<<>>, <<[reference |-> "1",
                           created_at |-> DateOf(MaxBackfillDays - 1),
                           closed_at |-> NoTime]>>}}
\* the sets of days that have a daily note: all, none, all but the first day
\* the clock shows
VaultShapes == {Days, {}, Days \ {MaxBackfillDays - 1}}

\* a daily note as the plugin first finds it: the section heading, no body
InitialNote == DefaultSettings.sectionHeader

\* an updateDailyNote call in flight: where it is suspended and what it holds
NoUpd == [phase |-> "none", kind |-> "none", day |-> 0, date |-> 0, body |-> <<>>,
          s |-> DefaultSettings, now |-> 0, content |-> <<>>, headings |-> <<>>,
          header |-> <<>>, out |-> NoOutcome]

\* a syncToDaily invocation that has not been made
IdleCycle == [pc |-> "idle", outcome |-> "none", result |-> NoResult,
              success |-> FALSE, i |-> 0, days |-> 0, btoday |-> 0, upd |-> NoUpd,
              api |-> 0, wrote |-> FALSE]

\* a component that is not exercised
Off == [pc |-> "off"]
ApiIdle ==
    /\ req = Off
    /\ sync = Off
    /\ details = Off
    /\ oncall = Off
    /\ query = Off
    /\ pager = Off
    /\ folder = Off
    /\ timer = Off

\* the plugin part of the state when only the reconciler is exercised
PluginIdle ==
    /\ isSyncing = FALSE
    /\ api = FALSE
    /\ remote = NoResult
    /\ cycles = [k \in 1..MaxCalls |-> IdleCycle]
    /\ nCalls = 0

\* ------------------------------------------------------------------------
\* The reconciler applied to one document (no other activity in between)
\* ------------------------------------------------------------------------
\* removeSectionFromNote(dailyNote) for the document of day d
RemoveCall(d, date, result, body, opName) ==
    LET content == vault[d].text
        headings == CachedHeadings(d)
        out == RemoveSectionText(content, headings, settings.sectionHeader)
    IN  /\ vault' = IF out.commit THEN [vault EXCEPT ![d].text = out.text] ELSE vault
        /\ last' = CallRecord(opName, d, date, result, TRUE, settings, clock,
                              content, headings, settings.sectionHeader, body, out)

\* updateDailyNote(result, date) for the document of day d
UpdateCall(d, date, result) ==
    IF ~vault[d].exists
    THEN /\ last' = NoNoteRecord("update", d, date, result)
         /\ UNCHANGED vault
    ELSE LET sectionContent == formatSyncResultForDate(settings, result, date, clock)
         IN  IF sectionContent = <<>> /\ settings.omitEmptySections
             THEN RemoveCall(d, date, result, sectionContent, "update-remove")
             ELSE LET content == vault[d].text
                      headings == CachedHeadings(d)
                      out == UpdateDailyNoteText(content, headings,
                                                 settings.sectionHeader, sectionContent)
                  IN  /\ vault' = [vault EXCEPT ![d].text = out.text]
                      /\ last' = CallRecord("update", d, date, result, TRUE, settings,
                                            clock, content, headings,
                                            settings.sectionHeader,
                                            sectionContent, out)

\* updateDailyNote(result) called on its own, for today's document
DocUpdate ==
    /\ nOps < MaxOps
    /\ \E result \in DocResultSet : UpdateCall(Today, clock, result)
    /\ nOps' = nOps + 1
    /\ UNCHANGED <<cache, settings, clock, notes>>
    /\ UNCHANGED pluginVars
    /\ UNCHANGED apiVars

\* clearIncidentsSection(): removeSectionFromNote on today's document
DocClear ==
    /\ nOps < MaxOps
    /\ IF vault[Today].exists
       THEN RemoveCall(Today, clock, NoResult, <<>>, "remove")
       ELSE /\ last' = NoNoteRecord("remove", Today, clock, NoResult)
            /\ UNCHANGED vault
    /\ nOps' = nOps + 1
    /\ UNCHANGED <<cache, settings, clock, notes>>
    /\ UNCHANGED pluginVars
    /\ UNCHANGED apiVars

\* some call made now or later can still observe the index and the clock
Observable ==
    /\ nOps < MaxOps
    /\ \/ nCalls < MaxCalls
       \/ \E k \in 1..MaxCalls : cycles[k].pc \notin {"idle", "rejected", "done"}

\* the document store re-indexes a document whose index is stale or absent
\* (explored while a further reconciler call can still observe the index)
CacheRefresh ==
    /\ Observable
    /\ \E d \in Days :
          /\ vault[d].exists
          /\ cache[d] # [present |-> TRUE, headings |-> HeadingsOf(vault[d].text)]
          /\ cache' = [cache EXCEPT ![d] =
                          [present |-> TRUE, headings |-> HeadingsOf(vault[d].text)]]
    /\ UNCHANGED <<vault, settings, clock, last, nOps, notes>>
    /\ UNCHANGED pluginVars
    /\ UNCHANGED apiVars

InitDoc ==
    /\ clock = DateOf(MaxBackfillDays)
    /\ settings \in DocSettingsSet
    /\ \E tgt \in {MaxBackfillDays}, doc \in InitDocs, idx \in BOOLEAN :
          /\ vault = [d \in Days |-> IF d = tgt THEN [exists |-> TRUE, text |-> doc]
                                     ELSE NoFile]
          /\ cache = [d \in Days |->
                        IF d = tgt /\ idx
                        THEN [present |-> TRUE, headings |-> HeadingsOf(doc)]
                        ELSE NoCache]
    /\ last = NoCall
    /\ nOps = 0
    /\ notes = NoNotes
    /\ PluginIdle
    /\ ApiIdle

NextDoc == DocUpdate \/ DocClear \/ CacheRefresh

SpecDoc == InitDoc /\ [][NextDoc]_vars

\* ------------------------------------------------------------------------
\* The plugin: syncToDaily and backfillDailyNotes (src/unnamed/part_002)
\* One action per run of code between two suspension points (await).
\* ------------------------------------------------------------------------
\* variant: the guard never fires
AlreadySyncing_Never == FALSE

\* this.isSyncing, the guard at the top of syncToDaily
AlreadySyncing == isSyncing

\* a daily note outside the days the vault holds does not exist
NoteOf(d) == IF d \in Days THEN vault[d] ELSE NoFile

\* the synchronous start of updateDailyNote(result, date), up to
\* `await this.app.vault.read(dailyNote)`: the cycle record it leaves
BeginUpdate(c, d, date) ==
    IF ~NoteOf(d).exists
    THEN [c EXCEPT !.upd = [NoUpd EXCEPT !.phase = "nonote", !.day = d, !.date = date]]
    ELSE LET sectionContent == formatSyncResultForDate(settings, c.result, date, clock)
         IN  [c EXCEPT !.upd =
                 [NoUpd EXCEPT !.phase = "read",
                               !.kind = IF sectionContent = <<>> /\ settings.omitEmptySections
                                        THEN "update-remove" ELSE "update",
                               !.day = d, !.date = date, !.body = sectionContent,
                               !.s = settings, !.now = clock]]

\* variant: the flag is left as it is
Finally_FlagKept(flag) == flag
\* the finally block of syncToDaily: this.isSyncing = false
Finally(flag) == FALSE

\* the end of a cycle: the finally block and the outcome it reported
Done(c, outcome) ==
    [IdleCycle EXCEPT !.pc = "done", !.outcome = outcome, !.api = c.api, !.wrote = c.wrote]

\* variant: the loop counts from today
BackfillDay_FromToday(today, i) == today - (i - 1)
\* the day of iteration i of the backfill loop: date.setDate(date.getDate() - i)
BackfillDay(today, i) == today - i

\* variant: the error leaves syncToDaily (the finally block still runs)
Caught_Rethrown(c) == [Done(c, "none") EXCEPT !.pc = "thrown"]
\* the catch block of syncToDaily: the failure is reported, the call ends
Caught(c) == Done(c, "failed")

\* syncToDaily / backfillDailyNotes after updateDailyNote returned ok:
\* the cycle record at the next suspension point, and the in-flight flag
Continue(c, ok) ==
    IF c.pc = "today"
    THEN IF settings.updatePreviousDailyNotes /\ Len(c.result.fullIncidents) > 0
         THEN LET daysToProcess == IF settings.historicalSyncDays > 0
                                   THEN settings.historicalSyncDays
                                   ELSE DefaultBackfillDays
              IN  [cycle |-> BeginUpdate([c EXCEPT !.pc = "backfill", !.success = ok,
                                                   !.i = 1, !.days = daysToProcess,
                                                   !.btoday = Today, !.upd = NoUpd],
                                         BackfillDay(Today, 1),
                                         DateOf(BackfillDay(Today, 1))),
                   syncing |-> TRUE]
         ELSE [cycle |-> Done(c, IF ok THEN "synced" ELSE "nonote"), syncing |-> Finally(isSyncing)]
    ELSE IF c.i + 1 <= c.days
         THEN [cycle |-> BeginUpdate([c EXCEPT !.i = c.i + 1, !.upd = NoUpd],
                                     BackfillDay(c.btoday, c.i + 1),
                                     DateOf(BackfillDay(c.btoday, c.i + 1))),
               syncing |-> TRUE]
         ELSE [cycle |-> Done(c, IF c.success THEN "synced" ELSE "nonote"),
               syncing |-> Finally(isSyncing)]

\* syncToDaily() is called (ribbon icon, command or interval timer)
Trigger ==
    /\ nCalls < MaxCalls
    /\ nCalls' = nCalls + 1
    /\ LET k == nCalls + 1
       IN  IF AlreadySyncing
           THEN /\ cycles' = [cycles EXCEPT ![k] = [IdleCycle EXCEPT !.pc = "rejected",
                                                                    !.outcome = "busy"]]
                /\ UNCHANGED isSyncing
           ELSE IF ~api
           THEN /\ cycles' = [cycles EXCEPT ![k] = [IdleCycle EXCEPT !.pc = "done",
                                                                    !.outcome = "nokey"]]
                /\ UNCHANGED isSyncing
           ELSE /\ isSyncing' = TRUE
                /\ cycles' = [cycles EXCEPT ![k] = [IdleCycle EXCEPT !.pc = "syncData",
                                                                    !.api = 1]]
    /\ UNCHANGED apiVars
    /\ UNCHANGED <<vault, cache, settings, clock, last, nOps, notes, api, remote>>

\* api.syncData resolves; syncToDaily runs on to its next await
SyncDataResolves ==
    \E k \in 1..MaxCalls :
      /\ cycles[k].pc = "syncData"
      /\ LET c == [cycles[k] EXCEPT !.result = remote]
         IN  cycles' = [cycles EXCEPT ![k] =
                 IF Len(remote.fullIncidents) > 0
                 THEN [c EXCEPT !.pc = "incidentNotes"]
                 ELSE BeginUpdate([c EXCEPT !.pc = "today"], Today, clock)]
      /\ UNCHANGED apiVars
      /\ UNCHANGED <<vault, cache, settings, clock, last, nOps, notes, isSyncing, api,
                     remote, nCalls>>

\* api.syncData rejects (no matching user, API failure): catch and finally
SyncDataRejects ==
    \E k \in 1..MaxCalls :
      /\ cycles[k].pc = "syncData"
      /\ cycles' = [cycles EXCEPT ![k] = Caught(cycles[k])]
      /\ isSyncing' = Finally(isSyncing)
      /\ UNCHANGED apiVars
      /\ UNCHANGED <<vault, cache, settings, clock, last, nOps, notes, api, remote, nCalls>>

\* incidentNoteManager.syncIncidents resolves, the note of each incident
\* written (vault.process or vault.create); updateDailyNote(result) starts
IncidentNotesDone ==
    \E k \in 1..MaxCalls :
      /\ cycles[k].pc = "incidentNotes"
      /\ notes' = syncIncidents(notes, cycles[k].result.fullIncidents)
      /\ cycles' = [cycles EXCEPT ![k] =
                       BeginUpdate([cycles[k] EXCEPT !.pc = "today"], Today, clock)]
      /\ UNCHANGED apiVars
      /\ UNCHANGED <<vault, cache, settings, clock, last, nOps, isSyncing, api,
                     remote, nCalls>>

\* updateDailyNote found no daily note and returned false
UpdateNoNote ==
    \E k \in 1..MaxCalls :
      /\ cycles[k].upd.phase = "nonote"
      /\ LET c == cycles[k]
             next == Continue(c, FALSE)
         IN  /\ last' = NoNoteRecord("update", c.upd.day, c.upd.date, c.result)
             /\ cycles' = [cycles EXCEPT ![k] = next.cycle]
             /\ isSyncing' = next.syncing
      /\ UNCHANGED apiVars
      /\ UNCHANGED <<vault, cache, settings, clock, nOps, notes, api, remote, nCalls>>

\* vault.read resolves: the section is located in the text read and the new
\* text is computed; removeSectionFromNote returns here when nothing is found
UpdateRead ==
    \E k \in 1..MaxCalls :
      /\ cycles[k].upd.phase = "read"
      /\ LET c == cycles[k]
             u == c.upd
             content == vault[u.day].text
             headings == CachedHeadings(u.day)
             header == settings.sectionHeader
             out == IF u.kind = "update"
                    THEN UpdateDailyNoteText(content, headings, header, u.body)
                    ELSE RemoveSectionText(content, headings, header)
             u2 == [u EXCEPT !.phase = "commit", !.content = content,
                             !.headings = headings, !.header = header, !.out = out]
         IN  IF out.commit
             THEN /\ cycles' = [cycles EXCEPT ![k].upd = u2]
                  /\ UNCHANGED <<last, isSyncing>>
             ELSE LET next == Continue(c, TRUE)
                  IN  /\ last' = CallRecord(u.kind, u.day, u.date, c.result, TRUE, u.s,
                                            u.now, content, headings, header, u.body, out)
                      /\ cycles' = [cycles EXCEPT ![k] = next.cycle]
                      /\ isSyncing' = next.syncing
      /\ UNCHANGED apiVars
      /\ UNCHANGED <<vault, cache, settings, clock, nOps, notes, api, remote, nCalls>>

\* variant: the callback returns the text the store hands it
ProcessResult_Current(content, data) == data
\* the callback given to vault.process: () => content, whatever text (data)
\* the document holds at that moment
ProcessResult(content, data) == content

\* vault.process(dailyNote, () => content) commits; the call returns true
UpdateCommit ==
    \E k \in 1..MaxCalls :
      /\ cycles[k].upd.phase = "commit"
      /\ LET c == [cycles[k] EXCEPT !.wrote = TRUE]
             u == c.upd
             next == Continue(c, TRUE)
         IN  /\ vault' = [vault EXCEPT
                          ![u.day].text = ProcessResult(u.out.text, vault[u.day].text)]
             /\ last' = CallRecord(u.kind, u.day, u.date, c.result, TRUE, u.s, u.now,
                                   u.content, u.headings, u.header, u.body, u.out)
             /\ cycles' = [cycles EXCEPT ![k] = next.cycle]
             /\ isSyncing' = next.syncing
      /\ UNCHANGED apiVars
      /\ UNCHANGED <<cache, settings, clock, nOps, notes, api, remote, nCalls>>

\* time passes
Tick ==
    /\ Observable
    /\ clock < MaxClock
    /\ clock' = clock + 1
    /\ UNCHANGED <<vault, cache, settings, last, nOps, notes>>
    /\ UNCHANGED pluginVars
    /\ UNCHANGED apiVars

\* the plugin after onload: the settings, the vault and the API as it finds them
InitPlugin ==
    /\ clock = DateOf(MaxBackfillDays) - 1
    /\ settings \in PluginSettingsSet
    /\ \E have \in VaultShapes :
          /\ vault = [d \in Days |-> IF d \in have
                                     THEN [exists |-> TRUE, text |-> InitialNote]
                                     ELSE NoFile]
          /\ cache = [d \in Days |-> IF d \in have
                                     THEN [present |-> TRUE,
                                           headings |-> HeadingsOf(InitialNote)]
                                     ELSE NoCache]
    /\ last = NoCall
    /\ nOps = 0
    /\ isSyncing = FALSE
    /\ api \in BOOLEAN
    /\ remote \in PluginResultSet
    /\ cycles = [k \in 1..MaxCalls |-> IdleCycle]
    /\ nCalls = 0
    /\ ApiIdle

Init ==
    /\ InitPlugin
    /\ notes = NoNotes

Next ==
    \/ Trigger
    \/ SyncDataResolves
    \/ SyncDataRejects
    \/ IncidentNotesDone
    \/ UpdateNoNote
    \/ UpdateRead
    \/ UpdateCommit
    \/ CacheRefresh
    \/ Tick

Spec == Init /\ [][Next]_vars

\* ------------------------------------------------------------------------
\* The plugin with document operations that reject (SpecFaults), and with a
\* settings edit (SpecSettings)
\* ------------------------------------------------------------------------
\* variant: a rejected write leaves the first half of the new text
FailedWrite_Partial(old, new) == SubSeq(new, 1, (Len(new) + 1) \div 2)
\* vault.process / vault.create rejects: the document keeps its text
FailedWrite(old, new) == old

\* what updateDailyNote returns when a document operation rejected: the catch
\* block of removeSectionFromNote swallows the error and updateDailyNote goes
\* on to `return true`; its own catch block returns false
ReturnedOnError(kind) == kind = "update-remove"

\* the header the user types into the settings tab
EditedHeader == <<"#", "#", " ", "T">>

\* vault.read rejects in updateDailyNote or in removeSectionFromNote
UpdateReadFails ==
    \E k \in 1..MaxCalls :
      /\ cycles[k].upd.phase = "read"
      /\ LET c == cycles[k]
             u == c.upd
             ok == ReturnedOnError(u.kind)
             next == Continue(c, ok)
         IN  /\ last' = FailedRecord(CallRecord(u.kind, u.day, u.date, c.result, ok, u.s,
                                                u.now, <<>>, <<>>, <<>>, u.body, NoOutcome))
             /\ cycles' = [cycles EXCEPT ![k] = next.cycle]
             /\ isSyncing' = next.syncing
      /\ UNCHANGED apiVars
      /\ UNCHANGED <<vault, cache, settings, clock, nOps, notes, api, remote, nCalls>>

\* vault.process rejects in updateDailyNote or in removeSectionFromNote
UpdateCommitFails ==
    \E k \in 1..MaxCalls :
      /\ cycles[k].upd.phase = "commit"
      /\ LET c == cycles[k]
             u == c.upd
             ok == ReturnedOnError(u.kind)
             next == Continue(c, ok)
         IN  /\ vault' = [vault EXCEPT ![u.day].text =
                             FailedWrite(vault[u.day].text, u.out.text)]
             /\ last' = FailedRecord(CallRecord(u.kind, u.day, u.date, c.result, ok, u.s,
                                                u.now, u.content, u.headings, u.header,
                                                u.body, u.out))
             /\ cycles' = [cycles EXCEPT ![k] = next.cycle]
             /\ isSyncing' = next.syncing
      /\ UNCHANGED apiVars
      /\ UNCHANGED <<cache, settings, clock, nOps, notes, api, remote, nCalls>>

\* createOrUpdateIncidentNote finds the note and vault.process rejects: the
\* error leaves syncIncidents and is caught by syncToDaily
IncidentNoteWriteFails ==
    \E k \in 1..MaxCalls :
      /\ cycles[k].pc = "incidentNotes"
      /\ LET incident == cycles[k].result.fullIncidents[1]
         IN  /\ notes[incident.reference].exists
             /\ notes' = [notes EXCEPT ![incident.reference].text =
                             FailedWrite(@, formatIncidentContent(incident))]
      /\ cycles' = [cycles EXCEPT ![k] = Caught(cycles[k])]
      /\ isSyncing' = Finally(isSyncing)
      /\ UNCHANGED apiVars
      /\ UNCHANGED <<vault, cache, settings, clock, last, nOps, api, remote, nCalls>>

\* createOrUpdateIncidentNote finds no note and vault.create throws: it
\* returns null, syncIncidents resolves and updateDailyNote(result) starts
IncidentNoteCreateFails ==
    \E k \in 1..MaxCalls :
      /\ cycles[k].pc = "incidentNotes"
      /\ ~notes[cycles[k].result.fullIncidents[1].reference].exists
      /\ cycles' = [cycles EXCEPT ![k] =
                       BeginUpdate([cycles[k] EXCEPT !.pc = "today"], Today, clock)]
      /\ UNCHANGED apiVars
      /\ UNCHANGED <<vault, cache, settings, clock, last, nOps, notes, isSyncing, api,
                     remote, nCalls>>

\* the user changes the section header in the settings tab: the plugin's
\* settings object, which the managers hold too, is assigned in place
EditSectionHeader ==
    /\ Observable
    /\ settings.sectionHeader = DefaultSettings.sectionHeader
    /\ settings' = [settings EXCEPT !.sectionHeader = EditedHeader]
    /\ UNCHANGED <<vault, cache, clock, last, nOps, notes>>
    /\ UNCHANGED pluginVars
    /\ UNCHANGED apiVars

\* the default toggles, with and without backfill; the incident note is
\* absent or left by an earlier sync; the clock stays within one day
InitFaults ==
    /\ InitPlugin
    /\ settings.showOnCall /\ settings.showIncidents /\ settings.omitEmptySections
    /\ notes \in {NoNotes, [r \in NoteRefs |-> StaleNote]}

NextFaults ==
    \/ Trigger
    \/ SyncDataResolves
    \/ SyncDataRejects
    \/ IncidentNotesDone
    \/ IncidentNoteWriteFails
    \/ IncidentNoteCreateFails
    \/ UpdateNoNote
    \/ UpdateRead
    \/ UpdateReadFails
    \/ UpdateCommit
    \/ UpdateCommitFails
    \/ CacheRefresh

SpecFaults == InitFaults /\ [][NextFaults]_vars

\* the default toggles, with and without backfill; no incident note yet; the
\* clock stays within one day
InitSettings ==
    /\ InitPlugin
    /\ settings.showOnCall /\ settings.showIncidents /\ settings.omitEmptySections
    /\ notes = NoNotes

NextSettings ==
    \/ Trigger
    \/ SyncDataResolves
    \/ SyncDataRejects
    \/ IncidentNotesDone
    \/ UpdateNoNote
    \/ UpdateRead
    \/ UpdateCommit
    \/ CacheRefresh
    \/ EditSectionHeader

SpecSettings == InitSettings /\ [][NextSettings]_vars

\* the line another writer adds
EditLine == <<"e">>
HasEditLine(text) == \E i \in 1..Len(Split(text)) : Split(text)[i] = EditLine
\* another writer (the user in the editor, another plugin, a file sync)
\* appends a line to a daily note, at any moment
ExternalEdit ==
    /\ Observable
    /\ \E d \in Days :
          /\ vault[d].exists
          /\ ~HasEditLine(vault[d].text)
          /\ vault' = [vault EXCEPT ![d].text = vault[d].text \o <<NL>> \o EditLine]
    /\ UNCHANGED <<cache, settings, clock, last, nOps, notes>>
    /\ UNCHANGED pluginVars
    /\ UNCHANGED apiVars

\* the default toggles without backfill: the cycles write today's note only
InitWriters ==
    /\ InitSettings
    /\ ~settings.updatePreviousDailyNotes

NextWriters ==
    \/ Trigger
    \/ SyncDataResolves
    \/ SyncDataRejects
    \/ IncidentNotesDone
    \/ UpdateNoNote
    \/ UpdateRead
    \/ UpdateCommit
    \/ CacheRefresh
    \/ ExternalEdit

SpecWriters == InitWriters /\ [][NextWriters]_vars

\* ------------------------------------------------------------------------
\* Properties of the Section Reconciler (checked under SpecDoc)
\* ------------------------------------------------------------------------
IsUpdate == last.op = "update" /\ last.ok
IsRemove == last.op \in {"remove", "update-remove"} /\ last.ok
ReadLines == Split(last.read)
BeforeLines == Slice(ReadLines, 0, last.start)
AfterLines == Slice(ReadLines, last.end, Len(ReadLines))
OwnedLines == Slice(ReadLines, last.start, last.end)

RECURSIVE Flatten(_)
Flatten(ls) == IF ls = <<>> THEN <<>> ELSE ls[1] \o Flatten(Tail(ls))
NonBlank(ls) == SelectSeq(ls, LAMBDA l : Trim(l) # <<>>)
WithoutNewlines(t) == SelectSeq(t, LAMBDA c : c # NL)
HasTripleNewline(t) ==
    \E i \in 1..(Len(t) - 2) : t[i] = NL /\ t[i + 1] = NL /\ t[i + 2] = NL

\* the configured header without its leading # markers, trimmed
RECURSIVE DropHashes(_)
DropHashes(h) == IF h # <<>> /\ h[1] = "#" THEN DropHashes(Tail(h)) ELSE h
TargetText == Trim(DropHashes(last.header))
Matches == {i \in 1..Len(last.headings) : Trim(last.headings[i].heading) = TargetText}

\* C2: replacing a section found in the heading index keeps every line
\* before the heading and every line from the end of the owned range onward
\* unchanged and in order, with the new body in place of the owned range.
C2_ReplaceKeepsOutside ==
    (IsUpdate /\ last.found) =>
        Split(last.text) = BeforeLines \o Split(last.body) \o AfterLines

\* C3: after removing a section every (non-blank) line outside the owned
\* range is still present as its own line, in the original order.
C3_RemoveKeepsOutside ==
    (IsRemove /\ last.found) =>
        NonBlank(Split(last.text)) = NonBlank(BeforeLines \o AfterLines)

\* C4: updateDailyNote run a second time with the same arguments on the
\* document the first run left, with the heading index recomputed from it,
\* leaves the document text unchanged (both runs see an accurate index, and
\* the first run's document has the target heading at most once).
C4_Idempotent ==
    ( /\ last.op \in {"update", "update-remove"} /\ last.ok /\ last.fresh
      /\ last.prevOp \in {"update", "update-remove"} /\ last.prevFresh
      /\ last.prevDay = last.day /\ last.prevDate = last.date
      /\ last.prevResult = last.result
      /\ Cardinality({i \in 1..Len(last.prevHeadings) :
                         Trim(last.prevHeadings[i].heading) = TargetText}) <= 1 )
    => vault[last.day].text = last.read

\* C5: after removing a found section the document holds exactly the
\* characters of the lines outside the owned range (nothing of the heading
\* or the body remains; with an accurate index that has the target once, no
\* heading of that text is left) and it has no run of 3 or more newlines.
C5_RemoveLeavesNoTrace ==
    (IsRemove /\ last.found) =>
        /\ last.commit /\ vault[last.day].text = last.text
        /\ ~HasTripleNewline(last.text)
        /\ WithoutNewlines(last.text) = Trim(Flatten(BeforeLines \o AfterLines))
        /\ (last.fresh /\ Cardinality(Matches) = 1) =>
               LET left == HeadingsOf(last.text)
               IN  \A i \in DOMAIN left : Trim(left[i].heading) # TargetText
C5_Witness ==
    /\ IsRemove /\ last.found /\ last.fresh /\ OwnedLines # <<>>
    /\ HasTripleNewline(Join(BeforeLines) \o Join(AfterLines))
    /\ last.text # <<>>

\* C6: the section operated on starts at the first heading of the index
\* whose trimmed text equals the configured header without its # markers,
\* and ends at the line of the first heading in index order that lies after
\* it and has a level <= its level, or at the end of the document; update
\* and remove use the same range.
C6_OwnedRange ==
    (IsUpdate \/ IsRemove) =>
        /\ last.found <=> Matches # {}
        /\ last.found =>
              \E i \in Matches :
                 /\ \A j \in Matches : i <= j
                 /\ last.start = last.headings[i].line
                 /\ LET enders == {k \in 1..Len(last.headings) :
                                      /\ last.headings[k].line > last.headings[i].line
                                      /\ last.headings[k].level <= last.headings[i].level}
                    IN  IF enders = {} THEN last.end = Len(ReadLines)
                        ELSE \E k \in enders : /\ \A m \in enders : k <= m
                                                /\ last.end = last.headings[k].line
C6_Witness ==
    /\ IsUpdate /\ last.found /\ last.fresh
    /\ last.end < Len(ReadLines)
    /\ \E k \in 1..Len(last.headings) :
          /\ last.headings[k].line > last.start
          /\ last.headings[k].line < last.end
C6_WitnessRemove ==
    /\ IsRemove /\ last.found /\ last.fresh /\ last.end < Len(ReadLines)
    /\ last.end > last.start + 1

\* C7: when no heading of the index matches (absent or stale index included)
\* and the body is non-empty, updateDailyNote commits the text it read
\* followed by two newlines and the body.
C7_AppendWhenNotFound ==
    (IsUpdate /\ Matches = {} /\ last.body # <<>>) =>
        /\ last.commit
        /\ last.text = last.read \o <<NL, NL>> \o last.body
        /\ vault[last.day].text = last.text
C7_Witness ==
    /\ IsUpdate /\ Matches = {} /\ last.body # <<>> /\ last.read # <<>>
    /\ ~last.fresh

\* C8: removal when no heading of the index matches is a no-op: nothing is
\* committed and the document text is unchanged.
C8_RemoveNotFoundNoOp ==
    (IsRemove /\ Matches = {}) =>
        /\ ~last.commit
        /\ vault[last.day].text = last.read
C8_Witness ==
    /\ IsRemove /\ Matches = {} /\ last.read # Trim(last.read)

\* cycles between their first await and their finally block
C1_InFlight ==
    {k \in 1..MaxCalls :
        cycles[k].pc \in {"syncData", "incidentNotes", "today", "backfill"}}

\* C1: at most one sync cycle is in flight at any time; a syncToDaily call
\* made while a cycle is running is rejected in the same step, without a call
\* of the remote API and without a document write, and a rejected call stays
\* rejected: no cycle is ever started for it.
C1_SingleCycle ==
    /\ [](/\ Cardinality(C1_InFlight) <= 1
          /\ isSyncing <=> C1_InFlight # {}
          /\ \A k \in 1..MaxCalls :
                cycles[k].pc = "rejected" =>
                    /\ cycles[k].api = 0
                    /\ ~cycles[k].wrote
                    /\ cycles[k].upd = NoUpd)
    /\ [][/\ (nCalls' # nCalls /\ C1_InFlight # {}) =>
                /\ cycles'[nCalls'].pc = "rejected"
                /\ vault' = vault
                /\ \A j \in 1..MaxCalls : j # nCalls' => cycles'[j] = cycles[j]
          /\ \A k \in 1..MaxCalls :
                cycles[k].pc = "rejected" => cycles'[k] = cycles[k]]_vars
C1_Witness ==
    /\ ~isSyncing
    /\ \E k, j \in 1..MaxCalls :
          /\ k < j
          /\ cycles[k].pc = "done" /\ cycles[k].outcome = "synced" /\ cycles[k].wrote
          /\ cycles[j].pc = "rejected"
\* the toggles, the sync result and the dates the last call rendered with
C9_OnCallEmitted ==
    /\ last.s.showOnCall
    /\ StartOfDay(last.now) = StartOfDay(last.date)
    /\ \/ last.result.onCall.present /\ Len(last.result.onCall.schedules) > 0
       \/ ~last.s.omitEmptySections
C9_IncidentsEmitted ==
    /\ last.s.showIncidents
    /\ \/ filterIncidentsForDate(last.result.fullIncidents, last.date) # <<>>
       \/ ~last.s.omitEmptySections
C9_IsUpdateCall == last.op \in {"update", "update-remove"} /\ last.ok

\* C9: the rendered body is empty exactly when omit-empty-sections is on and
\* neither subsection is emitted; updateDailyNote then removes the section
\* (no body is written), and otherwise it writes a body that starts with the
\* configured section header.
C9_EmptyBodyMeansRemove ==
    C9_IsUpdateCall =>
        /\ (last.body = <<>>) <=>
               (last.s.omitEmptySections /\ ~C9_OnCallEmitted /\ ~C9_IncidentsEmitted)
        /\ (last.body = <<>>) =>
               /\ last.op = "update-remove"
               /\ last.commit <=> last.found
               /\ Len(last.text) <= Len(last.read)
        /\ (last.body # <<>>) =>
               /\ last.op = "update"
               /\ last.commit
               /\ Len(last.body) >= Len(last.s.sectionHeader)
               /\ SubSeq(last.body, 1, Len(last.s.sectionHeader)) = last.s.sectionHeader
               /\ \E i \in 0..(Len(last.text) - Len(last.body)) :
                      SubSeq(last.text, i + 1, i + Len(last.body)) = last.body
C9_Witness ==
    /\ C9_IsUpdateCall
    /\ last.op = "update-remove" /\ last.found /\ last.commit
    /\ last.prevOp = "update"
    /\ last.s.showOnCall /\ last.s.showIncidents
\* a line of the on-call subsection
C10_IsOnCallLine(l) ==
    \/ l = OnCallHeading
    \/ l = NotOnCallLine
    \/ Len(l) >= Len(OnCallPrefix) /\ SubSeq(l, 1, Len(OnCallPrefix)) = OnCallPrefix

\* C10: a body rendered for a target date other than the current day holds no
\* on-call subsection, whatever the toggles and the sync result.
C10_OnCallOnlyToday ==
    (C9_IsUpdateCall /\ StartOfDay(last.date) # StartOfDay(last.now)) =>
        /\ \A i \in 1..Len(Split(last.body)) : ~C10_IsOnCallLine(Split(last.body)[i])
        /\ \A i \in 1..Len(Split(last.text)) :
              C10_IsOnCallLine(Split(last.text)[i]) =>
                  \E j \in 1..Len(Split(last.read)) : Split(last.read)[j] = Split(last.text)[i]
C10_Witness ==
    /\ C9_IsUpdateCall
    /\ StartOfDay(last.date) # StartOfDay(last.now)
    /\ last.op = "update" /\ last.commit
    /\ last.s.showOnCall /\ ~last.s.omitEmptySections
    /\ last.result.onCall.present

\* the backfill loop of cycle k is at one updateDailyNote call, for the day
\* today-i, which is not today's
C28_AtOneDay(k) ==
    cycles[k].pc = "backfill" =>
        /\ cycles[k].i \in 1..cycles[k].days
        /\ cycles[k].upd.phase \in {"nonote", "read", "commit"}
        /\ cycles[k].upd.day = cycles[k].btoday - cycles[k].i
        /\ cycles[k].upd.day < Today
\* a step of the backfill loop of cycle k: documents are written only by the
\* call in flight, for its own day; the next day's call starts when this one
\* has returned, and the loop ends after day today-N
C28_OneAfterAnother(k) ==
    (cycles[k].pc = "backfill" /\ cycles'[k] # cycles[k]) =>
        /\ \A d \in Days : vault'[d] # vault[d] => d = cycles[k].upd.day
        /\ \/ /\ cycles'[k].pc = "backfill" /\ cycles'[k].i = cycles[k].i
              /\ cycles[k].upd.phase = "read" /\ cycles'[k].upd.phase = "commit"
              /\ vault' = vault
           \/ /\ cycles'[k].pc = "backfill" /\ cycles'[k].i = cycles[k].i + 1
              /\ cycles'[k].btoday = cycles[k].btoday
              /\ cycles'[k].upd.phase \in {"nonote", "read"}
           \/ cycles'[k].pc = "done" /\ cycles[k].i = cycles[k].days
\* backfill starts in the step in which the update of today's document returns
C28_StartsAfterToday(k) ==
    (cycles'[k].pc = "backfill" /\ cycles[k].pc # "backfill") =>
        /\ cycles[k].pc = "today"
        /\ cycles[k].upd.phase \in {"nonote", "read", "commit"}
        /\ cycles[k].upd.day <= Today
        /\ cycles'[k].i = 1 /\ cycles'[k].btoday = Today
        /\ cycles'[k].success = (cycles[k].upd.phase # "nonote")

DocIdle ==
    /\ vault = [d \in Days |-> NoFile]
    /\ cache = [d \in Days |-> NoCache]
    /\ settings = DefaultSettings
    /\ clock = 0
    /\ last = NoCall
    /\ nOps = 0
    /\ notes = NoNotes

\* ------------------------------------------------------------------------
\* Date-window filter applied on its own (DailyNoteManager.filterIncidentsForDate)
\* ------------------------------------------------------------------------
\* the instants of the days explored: each day has its first and last instant
FilterTimes == 0..(DateOf(MaxBackfillDays) + DayLen - 1)
\* every incident over these instants, also one closed before it was created
FilterIncidentSet ==
    {[reference |-> "1", created_at |-> c, closed_at |-> e] :
        c \in FilterTimes, e \in {NoTime} \cup FilterTimes}
\* the incidents that follow the first one in an input list: open since the
\* first day, closed on the first day, created on the last day
FilterCompanions ==
    {[reference |-> "2", created_at |-> 0, closed_at |-> NoTime],
     [reference |-> "3", created_at |-> 0, closed_at |-> DayLen - 1],
     [reference |-> "4", created_at |-> DateOf(MaxBackfillDays), closed_at |-> NoTime]}
FilterInputs ==
    {<<i>> \o rest :
        i \in FilterIncidentSet,
        rest \in UNION {[1..n -> FilterCompanions] : n \in 0..(MaxIncidents - 1)}}

InitFilter ==
    /\ DocIdle /\ PluginIdle
    /\ req = Off /\ sync = Off /\ details = Off /\ oncall = Off /\ pager = Off /\ folder = Off /\ timer = Off
    /\ \E incidents \in FilterInputs, date \in FilterTimes :
          query = [pc |-> "filter", incidents |-> incidents, date |-> date, out |-> <<>>]

\* filterIncidentsForDate(incidents, date) is called
FilterCall ==
    /\ query.pc = "filter"
    /\ query' = [query EXCEPT !.pc = "filtered",
                              !.out = filterIncidentsForDate(query.incidents, query.date)]
    /\ UNCHANGED <<vault, cache, settings, clock, last, nOps, notes>>
    /\ UNCHANGED pluginVars
    /\ UNCHANGED <<req, sync, details, oncall, pager, folder, timer>>

NextFilter == FilterCall

SpecFilter == InitFilter /\ [][NextFilter]_vars

\* the calendar day of an instant
C11_DayOf(t) == t \div DayLen
\* the incident spans the day: created on or before it, not closed before it
C11_Spans(inc, date) ==
    /\ C11_DayOf(inc.created_at) <= C11_DayOf(date)
    /\ inc.closed_at # NoTime => C11_DayOf(inc.closed_at) >= C11_DayOf(date)

\* C11: filterIncidentsForDate keeps exactly the incidents created at or
\* before the last instant of the day and not closed before its first
\* instant, that is the incidents whose span from creation day to closure
\* day (open: every later day) contains the day, in input order.
C11_ActiveOnSpannedDays ==
    query.pc = "filtered" =>
        /\ query.out = SelectSeq(query.incidents, LAMBDA inc : C11_Spans(inc, query.date))
        /\ \A i \in 1..Len(query.incidents) :
              LET inc == query.incidents[i]
                  kept == \E j \in 1..Len(query.out) : query.out[j] = inc
              IN  kept <=> /\ inc.created_at <= StartOfDay(query.date) + DayLen - 1
                           /\ \/ inc.closed_at = NoTime
                              \/ inc.closed_at >= StartOfDay(query.date)
C11_Witness ==
    /\ query.pc = "filtered"
    /\ Len(query.incidents) >= 2
    /\ Len(query.out) = 2
    /\ query.out[1].closed_at # NoTime
    /\ C11_DayOf(query.out[1].closed_at) = C11_DayOf(query.date)
    /\ query.out[1].closed_at < query.date
    /\ C11_DayOf(query.out[1].created_at) < C11_DayOf(query.date)
    /\ query.out[2].reference = "4"

\* ------------------------------------------------------------------------
\* API client: one logical request (IncidentIOAPI.request, src/src/api.ts)
\* ------------------------------------------------------------------------
MAX_RETRIES == 5

\* what requestUrl settles with: a response status, or a transport error
\* ("net": network failure, timeout)
StatusSet == {200, 302, 404, 429, 500, 503}
OutcomeSet == [kind : {"status"}, status : StatusSet] \cup {[kind |-> "net", status |-> 0]}

NoError == [kind |-> "none", id |-> 0, status |-> 0]
\* the Error a rejected requestUrl call throws on attempt number n
TransportError(n) == [kind |-> "transport", id |-> n, status |-> 0]
\* new Error(`API request failed with status ${response.status}: ${url}`)
StatusError(status) == [kind |-> "status", id |-> 0, status |-> status]
\* new Error(`Max retries (${MAX_RETRIES}) exceeded for: ${url}`)
MaxRetriesError == [kind |-> "maxRetries", id |-> 0, status |-> 0]

IsSuccess(status) == status >= 200 /\ status < 300
\* variant: every 4xx status is retried
IsRetryableStatus_All4xx(status) == status >= 400
\* statuses answered with a backoff sleep and another attempt: 429 and 5xx
IsRetryableStatus(status) == status = 429 \/ status >= 500

\* variant: the loop runs while attempt <= MAX_RETRIES
LoopContinues_OneMore(attempt) == attempt <= MAX_RETRIES
\* for (let attempt = 0; attempt < MAX_RETRIES; attempt++)
LoopContinues(attempt) == attempt < MAX_RETRIES

\* throw lastError || new Error(`Max retries ...`)
ExhaustedError(lastError) == IF lastError # NoError THEN lastError ELSE MaxRetriesError

NewRequest ==
    [pc |-> "start", attempt |-> 0, lastError |-> NoError, attempts |-> 0,
     sleeps |-> 0, hist |-> <<>>, result |-> NoError, returned |-> FALSE]

InitRequest ==
    /\ DocIdle /\ PluginIdle
    /\ req = NewRequest
    /\ sync = Off /\ details = Off /\ oncall = Off /\ query = Off /\ pager = Off /\ folder = Off /\ timer = Off

\* request(endpoint) is called: the loop is entered and requestUrl is called
RequestStart ==
    /\ req.pc = "start"
    /\ req' = IF LoopContinues(0)
              THEN [req EXCEPT !.pc = "http", !.attempts = 1]
              ELSE [req EXCEPT !.pc = "thrown", !.result = ExhaustedError(NoError)]
    /\ UNCHANGED <<vault, cache, settings, clock, last, nOps, notes>>
    /\ UNCHANGED pluginVars
    /\ UNCHANGED <<sync, details, oncall, query, pager, folder, timer>>

\* requestUrl settles; the loop body runs to its return, throw or delay
HttpSettles ==
    /\ req.pc = "http"
    /\ \E o \in OutcomeSet :
          LET r == [req EXCEPT !.hist = Append(req.hist, o)]
          IN  req' =
                IF o.kind = "net"
                THEN [r EXCEPT !.lastError = TransportError(req.attempt + 1),
                               !.sleeps = req.sleeps + 1, !.pc = "sleep"]
                ELSE IF IsSuccess(o.status)
                THEN [r EXCEPT !.pc = "returned", !.returned = TRUE]
                ELSE IF IsRetryableStatus(o.status)
                THEN [r EXCEPT !.sleeps = req.sleeps + 1, !.pc = "sleep"]
                ELSE [r EXCEPT !.pc = "thrown", !.result = StatusError(o.status)]
    /\ UNCHANGED <<vault, cache, settings, clock, last, nOps, notes>>
    /\ UNCHANGED pluginVars
    /\ UNCHANGED <<sync, details, oncall, query, pager, folder, timer>>

\* the backoff delay ends: continue, attempt++, the loop test
SleepEnds ==
    /\ req.pc = "sleep"
    /\ req' = IF LoopContinues(req.attempt + 1)
              THEN [req EXCEPT !.attempt = req.attempt + 1, !.pc = "http",
                               !.attempts = req.attempts + 1]
              ELSE [req EXCEPT !.attempt = req.attempt + 1, !.pc = "thrown",
                               !.result = ExhaustedError(req.lastError)]
    /\ UNCHANGED <<vault, cache, settings, clock, last, nOps, notes>>
    /\ UNCHANGED pluginVars
    /\ UNCHANGED <<sync, details, oncall, query, pager, folder, timer>>

NextRequest == RequestStart \/ HttpSettles \/ SleepEnds

\* every requestUrl call settles (REQUEST_TIMEOUT_MS) and every timer fires
SpecRequest == InitRequest /\ [][NextRequest]_vars /\ WF_vars(NextRequest)

\* outcomes answered with a backoff sleep: 429, 5xx, transport error
C12_Retryable(o) == o.kind = "net" \/ o.status = 429 \/ o.status >= 500
C12_Ended == req.pc \in {"returned", "thrown"}
C12_RetryableCount == Len(SelectSeq(req.hist, C12_Retryable))

\* C12: one logical request makes at most MAX_RETRIES = 5 HTTP attempts and
\* always terminates; a 2xx response makes it return at once, and every 429,
\* 5xx or transport error is followed by one backoff sleep and, while
\* attempts remain, by another attempt.
C12_BoundedAttempts ==
    /\ [](/\ req.attempts <= 5
          /\ req.attempts = Len(req.hist) + (IF req.pc = "http" THEN 1 ELSE 0)
          /\ \A i \in 1..(Len(req.hist) - 1) : C12_Retryable(req.hist[i])
          /\ req.sleeps = C12_RetryableCount
          /\ req.returned <=>
                (req.hist # <<>> /\ req.hist[Len(req.hist)].kind = "status"
                                 /\ req.hist[Len(req.hist)].status \in 200..299)
          /\ req.returned => req.pc = "returned"
          /\ (req.hist # <<>> /\ C12_Retryable(req.hist[Len(req.hist)])
                              /\ Len(req.hist) < 5) => ~C12_Ended)
    /\ <>C12_Ended
C12_Witness ==
    /\ req.pc = "returned"
    /\ req.attempts = 5
    /\ \E i, j, k \in 1..4 :
          /\ req.hist[i].kind = "net"
          /\ req.hist[j].status = 429
          /\ req.hist[k].status >= 500

\* C13: a 4xx status other than 429 ends the request at once with a
\* failure: no sleep follows it and no further attempt is made, on whichever
\* attempt it arrives.
C13_ClientErrorFailsAtOnce ==
    (req.pc # "off" /\ \E i \in 1..Len(req.hist) :
        req.hist[i].kind = "status" /\ req.hist[i].status \in 400..499
                                    /\ req.hist[i].status # 429) =>
        LET n == Len(req.hist)
        IN  /\ req.hist[n].status \in 400..499
            /\ req.pc = "thrown"
            /\ req.result.kind = "status" /\ req.result.status = req.hist[n].status
            /\ req.attempts = n
            /\ req.sleeps = n - 1
C13_Witness ==
    /\ req.pc = "thrown"
    /\ Len(req.hist) = 3
    /\ req.hist[3].status = 404
    /\ req.hist[1].kind = "net"

\* the transport error of the most recent attempt that failed at transport
\* level, NoError when there was none
C14_LastTransportError ==
    LET at == {i \in 1..Len(req.hist) : req.hist[i].kind = "net"}
    IN  IF at = {} THEN NoError
        ELSE TransportError(CHOOSE i \in at : \A j \in at : j <= i)

\* C14: when all 5 attempts end in retryable outcomes the request fails with
\* the "max retries exceeded" error, and that error carries the last
\* transport error if an attempt had one.
C14_MaxRetriesError ==
    (req.pc = "thrown" /\ Len(req.hist) = 5 /\ C12_Retryable(req.hist[5])) =>
        /\ req.result.kind = "maxRetries"
        /\ req.lastError = C14_LastTransportError

\* ------------------------------------------------------------------------
\* API client: syncData and processInBatches (src/src/api.ts)
\* A sub-call is modelled by how it settles: fulfilled or rejected.
\* ------------------------------------------------------------------------
BATCH_SIZE == 5

Items == 1..MaxItems

\* batch.slice(i, i + batchSize), as 1-based item numbers (i is 0-based)
\* variant: the whole remainder of the list is one batch
BatchItems_Unbounded(i, n) == (i + 1)..n
BatchItems(i, n) == (i + 1)..Min(i + BATCH_SIZE, n)

RECURSIVE FulfilledInOrder(_, _, _)
\* variant: a rejected item discards the results of its batch
Collect_AllOrNothing(results, items, from, to) ==
    IF \E k \in from..to : items[k] = "rejected" THEN results
    ELSE results \o FulfilledInOrder(items, from, to)
\* for (const result of settledResults) if fulfilled results.push(result.value)
FulfilledInOrder(items, from, to) ==
    IF from > to THEN <<>>
    ELSE (IF items[from] = "fulfilled" THEN <<from>> ELSE <<>>)
             \o FulfilledInOrder(items, from + 1, to)
Collect(results, items, from, to) == results \o FulfilledInOrder(items, from, to)

NewSync ==
    [pc |-> "findUser", userResolved |-> FALSE, cause |-> "none",
     onCall |-> "idle", list |-> "idle", n |-> 0, i |-> 0,
     items |-> [k \in Items |-> "waiting"], results |-> <<>>, delays |-> 0]

\* processInBatches reaches the top of its loop with index i: the next batch
\* is started, or the loop ends and syncData returns its result
EnterBatch(sy, i) ==
    IF i < sy.n
    THEN [sy EXCEPT !.pc = "batch", !.i = i,
                    !.items = [k \in Items |-> IF k \in BatchItems(i, sy.n)
                                               THEN "running" ELSE sy.items[k]]]
    ELSE [sy EXCEPT !.pc = "resolved", !.i = i]

\* Promise.all([getOnCallSchedules, incidents]) after one of them settled
AfterGather(sy) ==
    IF sy.onCall = "failed" THEN [sy EXCEPT !.pc = "rejected", !.cause = "onCall"]
    ELSE IF sy.list = "failed" THEN [sy EXCEPT !.pc = "rejected", !.cause = "list"]
    ELSE IF sy.onCall = "ok" /\ sy.list = "ok" THEN EnterBatch(sy, 0)
    ELSE sy

InitSync ==
    /\ DocIdle /\ PluginIdle
    /\ sync = NewSync
    /\ req = Off /\ details = Off /\ oncall = Off /\ query = Off /\ pager = Off /\ folder = Off /\ timer = Off

\* findUser settles: the /users request failed, no user matched, or one did
FindUserSettles ==
    /\ sync.pc = "findUser"
    /\ \E o \in {"failed", "nomatch", "match"} :
          sync' = IF o = "failed"
                  THEN [sync EXCEPT !.pc = "rejected", !.cause = "request"]
                  ELSE IF o = "nomatch"
                  THEN [sync EXCEPT !.pc = "rejected", !.cause = "nouser"]
                  ELSE [sync EXCEPT !.pc = "gather", !.userResolved = TRUE,
                                    !.onCall = "pending", !.list = "pending"]
    /\ UNCHANGED <<vault, cache, settings, clock, last, nOps, notes>>
    /\ UNCHANGED pluginVars
    /\ UNCHANGED <<req, details, oncall, query, pager, folder, timer>>

\* getOnCallSchedules settles: it rejects when the /schedules request fails
OnCallSettles ==
    /\ sync.pc = "gather" /\ sync.onCall = "pending"
    /\ \E o \in {"ok", "failed"} :
          sync' = AfterGather([sync EXCEPT !.onCall = o])
    /\ UNCHANGED <<vault, cache, settings, clock, last, nOps, notes>>
    /\ UNCHANGED pluginVars
    /\ UNCHANGED <<req, details, oncall, query, pager, folder, timer>>

\* the incident list fetch settles: n candidate incidents, or a failed request
ListSettles ==
    /\ sync.pc = "gather" /\ sync.list = "pending"
    /\ \/ sync' = AfterGather([sync EXCEPT !.list = "failed"])
       \/ \E n \in 0..MaxItems :
             sync' = AfterGather([sync EXCEPT !.list = "ok", !.n = n])
    /\ UNCHANGED <<vault, cache, settings, clock, last, nOps, notes>>
    /\ UNCHANGED pluginVars
    /\ UNCHANGED <<req, details, oncall, query, pager, folder, timer>>

\* the processor of one running item settles; when it is the last of its
\* batch, Promise.allSettled resolves and the loop body runs on
ItemSettles ==
    /\ sync.pc = "batch"
    /\ \E k \in Items, o \in {"fulfilled", "rejected"} :
          /\ sync.items[k] = "running"
          /\ LET sy == [sync EXCEPT !.items[k] = o]
                 batch == BatchItems(sync.i, sync.n)
             IN  sync' =
                   IF \E j \in Items : sy.items[j] = "running" THEN sy
                   ELSE LET from == sync.i + 1
                            to == from + Cardinality(batch) - 1
                            done == [sy EXCEPT !.results =
                                        Collect(sy.results, sy.items, from, to)]
                        IN  IF sync.i + BATCH_SIZE < sync.n
                            THEN [done EXCEPT !.pc = "delay", !.delays = sy.delays + 1]
                            ELSE EnterBatch(done, sync.i + BATCH_SIZE)
    /\ UNCHANGED <<vault, cache, settings, clock, last, nOps, notes>>
    /\ UNCHANGED pluginVars
    /\ UNCHANGED <<req, details, oncall, query, pager, folder, timer>>

\* the pause between two batches ends
DelayEnds ==
    /\ sync.pc = "delay"
    /\ sync' = EnterBatch(sync, sync.i + BATCH_SIZE)
    /\ UNCHANGED <<vault, cache, settings, clock, last, nOps, notes>>
    /\ UNCHANGED pluginVars
    /\ UNCHANGED <<req, details, oncall, query, pager, folder, timer>>

NextSync == FindUserSettles \/ OnCallSettles \/ ListSettles \/ ItemSettles \/ DelayEnds

SpecSync == InitSync /\ [][NextSync]_vars

\* C15: syncData fails only if no user matches the identifier: once a user
\* is resolved, no failure of the on-call lookup, of the incident list fetch
\* or of a per-incident detail fetch makes syncData fail.
C15_FailsOnlyWithoutUser ==
    (sync.pc # "off" /\ sync.userResolved) => sync.pc # "rejected"

\* the batch an item belongs to, counted from 0
C18_BatchOf(k) == (k - 1) \div 5
C18_Settled(k) == sync.items[k] \in {"fulfilled", "rejected"}

\* C18: the per-incident detail fetches run in batches of width 5: at most 5
\* are in flight at any time, and no incident of a batch starts before every
\* incident of the preceding batches has settled.
C18_BatchWidth ==
    sync.pc # "off" =>
        /\ Cardinality({k \in Items : sync.items[k] = "running"}) <= 5
        /\ \A k \in Items :
              sync.items[k] # "waiting" =>
                  /\ k <= sync.n
                  /\ \A j \in Items : C18_BatchOf(j) < C18_BatchOf(k) => C18_Settled(j)
        /\ \A k \in Items :
              (sync.pc = "batch" /\ k <= sync.n /\ C18_BatchOf(k) = sync.i \div 5) =>
                  sync.items[k] # "waiting"
C18_Witness ==
    /\ sync.pc = "batch"
    /\ sync.n > 5
    /\ sync.items[6] = "running"
    /\ sync.delays = 1
    /\ sync.items[2] = "rejected"

\* the items of the input, in input order
C19_Input == [k \in 1..sync.n |-> k]

\* C19: processInBatches returns exactly the results of the items whose
\* processor fulfilled, in input order; a rejected item is skipped and every
\* other item of its batch and of the later batches is processed and returned.
C19_FulfilledInInputOrder ==
    (sync.pc = "resolved") =>
        /\ \A k \in 1..sync.n : C18_Settled(k)
        /\ sync.results = SelectSeq(C19_Input, LAMBDA k : sync.items[k] = "fulfilled")
C19_Witness ==
    /\ sync.pc = "resolved"
    /\ sync.n > 5
    /\ sync.items[1] = "rejected"
    /\ sync.items[2] = "fulfilled"
    /\ sync.items[5] = "fulfilled"
    /\ sync.items[6] = "fulfilled"
    /\ Len(sync.results) >= 3

\* ------------------------------------------------------------------------
\* API client: the candidate incidents of a sync (src/src/api.ts)
\* ------------------------------------------------------------------------
\* syncData called without historicalOptions
NoOptions == [present |-> FALSE, days |-> 0]
OptionsSet == {NoOptions} \cup {[present |-> TRUE, days |-> n] : n \in 0..MaxBackfillDays}

\* incident_role_assignments: no assignment, or one of a lead or custom role
\* to the user "u" or to somebody else
RoleAssignmentsSet ==
    {<<>>} \cup {<<[assignee |-> a, role_type |-> t]>> :
                     a \in {"u", "v"}, t \in {"lead", "custom"}}
RemoteIncidentSet ==
    [category : {"live", "triage", "closed"},
     created_at : {DateOf(d) : d \in Days},
     roles : RoleAssignmentsSet]
RemoteIncidentLists ==
    UNION {[1..n -> RemoteIncidentSet] : n \in 1..MaxIncidents}

IsActiveCategory(inc) == inc.category = "live" \/ inc.category = "triage"
HoldsRole(inc, userId) == \E i \in 1..Len(inc.roles) : inc.roles[i].assignee = userId
HoldsLeadRole(inc, userId) ==
    \E i \in 1..Len(inc.roles) :
        inc.roles[i].assignee = userId /\ inc.roles[i].role_type = "lead"

\* the incidents the API returns for the filters of getAllIncidentsPaginated:
\* created_at[gte] = the calendar date of createdAfter, status_category one of
\* live, triage; all pages
ServerIncidents(all, createdAfter, activeOnly) ==
    SelectSeq(all, LAMBDA inc :
        /\ createdAfter # NoTime => inc.created_at >= StartOfDay(createdAfter)
        /\ activeOnly => IsActiveCategory(inc))

getUserIncidents(all, userId) ==
    SelectSeq(SelectSeq(all, IsActiveCategory), LAMBDA inc : HoldsLeadRole(inc, userId))

getUserIncidentsWithHistory(all, userId, options, now) ==
    LET fetched == IF options.days # 0
                   THEN ServerIncidents(all, now - options.days * DayLen, FALSE)
                   ELSE ServerIncidents(all, NoTime, TRUE)
    IN  SelectSeq(fetched, LAMBDA inc : HoldsRole(inc, userId))

\* historicalOptions ? getUserIncidentsWithHistory(...) : getUserIncidents(...)
CandidateIncidents(all, userId, options, now) ==
    IF options.present
    THEN getUserIncidentsWithHistory(all, userId, options, now)
    ELSE getUserIncidents(all, userId)

InitCandidates ==
    /\ DocIdle /\ PluginIdle
    /\ req = Off /\ sync = Off /\ details = Off /\ oncall = Off /\ pager = Off /\ folder = Off /\ timer = Off
    /\ \E all \in RemoteIncidentLists, options \in OptionsSet :
          query = [pc |-> "candidates", all |-> all, options |-> options,
                   now |-> DateOf(MaxBackfillDays) + DayLen - 1, out |-> <<>>]

\* syncData fetches the candidate incidents of the user "u"
CandidatesCall ==
    /\ query.pc = "candidates"
    /\ query' = [query EXCEPT !.pc = "fetched",
                              !.out = CandidateIncidents(query.all, "u", query.options,
                                                         query.now)]
    /\ UNCHANGED <<vault, cache, settings, clock, last, nOps, notes>>
    /\ UNCHANGED pluginVars
    /\ UNCHANGED <<req, sync, details, oncall, pager, folder, timer>>

NextCandidates == CandidatesCall

SpecCandidates == InitCandidates /\ [][NextCandidates]_vars

\* C16: without a historical window the candidates are the live or triage
\* incidents on which the user holds a role of any kind; with a window of N
\* days they are the incidents created within the last N days on which the
\* user holds a role of any kind.
C16_CandidatesAnyRole ==
    query.pc = "fetched" =>
        LET anyRole(inc) == \E i \in 1..Len(inc.roles) : inc.roles[i].assignee = "u"
            windowed == query.options.present /\ query.options.days > 0
            today == query.now \div DayLen
        IN  query.out = SelectSeq(query.all, LAMBDA inc :
                /\ anyRole(inc)
                /\ IF windowed
                   THEN inc.created_at \div DayLen >= today - query.options.days
                   ELSE inc.category \in {"live", "triage"})

\* ------------------------------------------------------------------------
\* API client: getFullIncidentDetails and its five sub-fetches (src/src/api.ts)
\* ------------------------------------------------------------------------
SubNames == {"updates", "followUps", "actions", "attachments", "timestamps"}

\* what the API may hold for each sub-resource of the incident
UpdateSet ==
    {[category |-> c, created_at |-> t] :
        c \in {"live", "closed"}, t \in {2, 3}}
ServerData(name) ==
    IF name = "updates"
    THEN {<<>>} \cup {<<u>> : u \in UpdateSet}
             \cup {<<[category |-> "live", created_at |-> 1],
                     [category |-> "closed", created_at |-> 2],
                     [category |-> "closed", created_at |-> 3]>>}
    ELSE IF name \in {"followUps", "actions"}
    THEN {<<>>, <<[id |-> "x", status |-> "open"]>>,
          <<[id |-> "y", status |-> "deleted"], [id |-> "x", status |-> "open"]>>}
    ELSE {<<>>, <<[id |-> "x", status |-> "open"]>>}

\* what a sub-fetch resolves to: the catch block turns a failed request into
\* an empty collection; follow-ups and actions drop deleted entries
SubFetchResult(name, failed, data) ==
    IF failed THEN <<>>
    ELSE IF name \in {"followUps", "actions"}
    THEN SelectSeq(data, LAMBDA e : e.status # "deleted")
    ELSE data

\* the instants of this component are half minutes: `(1000 * 60)` in their unit
MinuteLen == 2
\* Math.round(x / d): the nearest integer, halves towards plus infinity
RoundDiv(x, d) == (2 * x + d) \div (2 * d)
\* Math.round((closed.getTime() - created.getTime()) / (1000 * 60))
DurationMinutes(created, closed) == RoundDiv(closed - created, MinuteLen)

\* the incidents the list endpoint may return: created at a minute boundary or
\* half a minute later; open, or closed at once or a minute and a half or more
\* later; with a status category or without one
RawIncidentSet ==
    [created_at : {0, 1}, closed_at : {NoTime, 1, 4}, category : {"live", "closed", "none"}]

\* buildBasicFullIncident: the fields taken from the incident itself
buildBasicFullIncident(incident) ==
    [created_at |-> incident.created_at, closed_at |-> incident.closed_at,
     statusCategory |-> IF incident.category = "none" THEN "closed" ELSE incident.category,
     durationMinutes |-> IF incident.closed_at # NoTime
                         THEN DurationMinutes(incident.created_at, incident.closed_at)
                         ELSE NoTime]
BaseIncidentSet == {buildBasicFullIncident(incident) : incident \in RawIncidentSet}

\* variant: the last update that reports the closed status
FirstClosedUpdate_Last(updates) ==
    LET at == {i \in 1..Len(updates) : updates[i].category = "closed"}
    IN  IF at = {} THEN 0 ELSE CHOOSE i \in at : \A j \in at : i >= j
\* updates.find(u => u.new_incident_status?.category === 'closed')
FirstClosedUpdate(updates) ==
    LET at == {i \in 1..Len(updates) : updates[i].category = "closed"}
    IN  IF at = {} THEN 0 ELSE CHOOSE i \in at : \A j \in at : i <= j

\* variant: the close time is adopted whatever the status category
AdoptsClosedAt_AnyCategory(base, updates) ==
    base.closed_at = NoTime /\ FirstClosedUpdate(updates) # 0
\* closed_at is taken from the timeline when the incident has none and is closed
AdoptsClosedAt(base, updates) ==
    /\ base.closed_at = NoTime /\ base.statusCategory = "closed"
    /\ FirstClosedUpdate(updates) # 0

\* variant: the duration built from the incident is kept
AdoptedDuration_Stale(base, closedUpdate) == base.durationMinutes
\* the duration recalculated from the adopted close time
AdoptedDuration(base, closedUpdate) ==
    DurationMinutes(base.created_at, closedUpdate.created_at)

\* the FullIncident returned once the five sub-fetches have resolved
Aggregate(base, results) ==
    LET full == [created_at |-> base.created_at, closed_at |-> base.closed_at,
                 statusCategory |-> base.statusCategory,
                 durationMinutes |-> base.durationMinutes,
                 updates |-> results["updates"], followUps |-> results["followUps"],
                 actions |-> results["actions"], attachments |-> results["attachments"],
                 timestamps |-> results["timestamps"]]
    IN  IF AdoptsClosedAt(base, results["updates"])
        THEN LET closedUpdate == results["updates"][FirstClosedUpdate(results["updates"])]
             IN  [full EXCEPT !.closed_at = closedUpdate.created_at,
                              !.durationMinutes = AdoptedDuration(base, closedUpdate)]
        ELSE full

NoFull == Aggregate([created_at |-> 0, closed_at |-> NoTime, statusCategory |-> "live",
                     durationMinutes |-> NoTime], [n \in SubNames |-> <<>>])

InitDetails ==
    /\ DocIdle /\ PluginIdle
    /\ req = Off /\ sync = Off /\ oncall = Off /\ query = Off /\ pager = Off /\ folder = Off /\ timer = Off
    /\ \E base \in BaseIncidentSet :
          details = [pc |-> "fetching", base |-> base,
                     sub |-> [n \in SubNames |-> "pending"],
                     results |-> [n \in SubNames |-> <<>>], full |-> NoFull]

\* one sub-fetch resolves; when it is the last one, Promise.all resolves and
\* getFullIncidentDetails runs to its return
SubFetchSettles ==
    /\ details.pc = "fetching"
    /\ \E name \in SubNames, failed \in BOOLEAN :
          /\ details.sub[name] = "pending"
          /\ \E data \in (IF failed THEN {<<>>} ELSE ServerData(name)) :
                LET d == [details EXCEPT
                             !.sub[name] = IF failed THEN "failed" ELSE "ok",
                             !.results[name] = SubFetchResult(name, failed, data)]
                IN  details' =
                      IF \E n \in SubNames : d.sub[n] = "pending" THEN d
                      ELSE [d EXCEPT !.pc = "resolved",
                                     !.full = Aggregate(d.base, d.results)]
    /\ UNCHANGED <<vault, cache, settings, clock, last, nOps, notes>>
    /\ UNCHANGED pluginVars
    /\ UNCHANGED <<req, sync, oncall, query, pager, folder, timer>>

NextDetails == SubFetchSettles

SpecDetails == InitDetails /\ [][NextDetails]_vars

\* d is the span from created to closed in whole minutes (the nearest one)
WholeMinutes(d, created, closed) ==
    /\ MinuteLen * (2 * d - 1) <= 2 * (closed - created)
    /\ 2 * (closed - created) < MinuteLen * (2 * d + 1)

C17_Field(name) ==
    IF name = "updates" THEN details.full.updates
    ELSE IF name = "followUps" THEN details.full.followUps
    ELSE IF name = "actions" THEN details.full.actions
    ELSE IF name = "attachments" THEN details.full.attachments
    ELSE details.full.timestamps
\* the call resolves exactly when all five sub-fetches have settled; a failed
\* one contributes an empty collection, a successful one what it returned
C17_Collections ==
    /\ details.pc = "resolved" <=> \A n \in SubNames : details.sub[n] # "pending"
    /\ details.pc = "resolved" =>
          \A n \in SubNames :
              /\ details.sub[n] = "failed" => C17_Field(n) = <<>>
              /\ details.sub[n] = "ok" => C17_Field(n) = details.results[n]
C17_BaseUnaffected ==
    /\ details.full.created_at = details.base.created_at
    /\ details.full.statusCategory = details.base.statusCategory
    /\ details.full.closed_at = details.base.closed_at
    /\ details.full.durationMinutes = details.base.durationMinutes
\* the updates that report the closed status, in timeline order
C17_ClosedUpdates ==
    SelectSeq(details.full.updates, LAMBDA u : u.category = "closed")

\* C17 (as stated): getFullIncidentDetails resolves for every combination of
\* success and failure of its five sub-fetches, with an empty collection for
\* each failed one and the fetched data for each successful one, and the
\* base fields of the incident are unaffected.
C17_BaseFieldsUnaffected ==
    details.pc # "off" =>
        /\ C17_Collections
        /\ details.pc = "resolved" => C17_BaseUnaffected

\* C17 (amended): as stated, except that an incident without close time
\* whose status category is closed takes its close time, and the duration
\* computed from it, from the first fetched update that reports the closed
\* status; every other base field, and these two in every other case, are
\* unaffected.
C17_BaseFieldsUnlessAdopted ==
    details.pc # "off" =>
        /\ C17_Collections
        /\ details.pc = "resolved" =>
              IF /\ details.base.closed_at = NoTime
                 /\ details.base.statusCategory = "closed"
                 /\ C17_ClosedUpdates # <<>>
              THEN /\ details.full.created_at = details.base.created_at
                   /\ details.full.statusCategory = details.base.statusCategory
                   /\ details.full.closed_at = C17_ClosedUpdates[1].created_at
                   /\ WholeMinutes(details.full.durationMinutes,
                                   details.base.created_at,
                                   C17_ClosedUpdates[1].created_at)
              ELSE C17_BaseUnaffected
C17_Witness ==
    /\ details.pc = "resolved"
    /\ details.sub["updates"] = "ok" /\ Len(C17_ClosedUpdates) = 2
    /\ details.base.closed_at = NoTime /\ details.base.statusCategory = "closed"
    /\ details.sub["followUps"] = "failed"
    /\ details.sub["actions"] = "ok" /\ details.full.actions # <<>>
    /\ details.sub["timestamps"] = "failed"

\* C22: when the base record has no close time and its status category is
\* closed, the close time is the timestamp of the first fetched update whose
\* new status category is closed and the duration is recomputed from creation
\* to that instant; when there is no such update, or the category is not
\* closed, or the base record has a close time, both stay as built from the
\* base record.
C22_CloseTimeFromTimeline ==
    details.pc = "resolved" =>
        LET closed == {i \in 1..Len(details.results["updates"]) :
                          details.results["updates"][i].category = "closed"}
            adopt == /\ details.base.closed_at = NoTime
                     /\ details.base.statusCategory = "closed"
                     /\ closed # {}
        IN  /\ adopt =>
                  \E i \in closed :
                      /\ \A j \in closed : i <= j
                      /\ details.full.closed_at = details.results["updates"][i].created_at
                      /\ WholeMinutes(details.full.durationMinutes,
                                      details.base.created_at,
                                      details.results["updates"][i].created_at)
            /\ ~adopt =>
                  /\ details.full.closed_at = details.base.closed_at
                  /\ details.full.durationMinutes = details.base.durationMinutes
\* an incident without status category (read as closed) and without close
\* time, created on a half minute, whose timeline reports the closed status twice
C22_Witness ==
    /\ details.pc = "resolved"
    /\ details.base.closed_at = NoTime /\ details.base.created_at = 1
    /\ Len(details.results["updates"]) = 3
    /\ details.full.closed_at = 2 /\ details.full.durationMinutes = 1

C23_DurationIffClosed(inc) ==
    /\ inc.durationMinutes # NoTime <=> inc.closed_at # NoTime
    /\ inc.closed_at # NoTime =>
          WholeMinutes(inc.durationMinutes, inc.created_at, inc.closed_at)
\* C23: in every FullIncident built by buildBasicFullIncident or returned by
\* getFullIncidentDetails, the duration is present exactly when a close time
\* is present, and it is then the close instant minus the creation instant
\* in whole minutes.
C23_DurationMatchesCloseTime ==
    details.pc # "off" =>
        /\ C23_DurationIffClosed(details.base)
        /\ details.pc = "resolved" => C23_DurationIffClosed(details.full)
\* a close time adopted from the timeline a minute and a half after creation
C23_Witness ==
    /\ details.pc = "resolved"
    /\ details.base.closed_at = NoTime /\ details.base.durationMinutes = NoTime
    /\ details.base.created_at = 0
    /\ details.full.closed_at = 3 /\ details.full.durationMinutes = 2

\* ------------------------------------------------------------------------
\* API client: getOnCallSchedules (src/src/api.ts)
\* ------------------------------------------------------------------------
Schedules == 1..MaxSchedules

\* String.prototype.toLowerCase over the letters used
ToLowerChar(c) == IF c = "A" THEN "a" ELSE IF c = "B" THEN "b" ELSE c
ToLowerCase(str) == [i \in 1..Len(str) |-> ToLowerChar(str[i])]

\* entry.user?.email when the entry has no user or no email
NoEmail == <<>>
UserEmailSet == {<<"a", "@">>, <<"A", "@">>}
EntryEmailSet == {<<"a", "@">>, <<"A", "@">>, <<"b", "@">>, NoEmail}
\* schedule_entries.final of one schedule for the window [now, now]
FinalEntriesSet ==
    {<<>>} \cup {<<e>> : e \in EntryEmailSet} \cup {<<<<"b", "@">>, <<"A", "@">>>>}

\* variant: the emails are compared as they are
EmailMatches_CaseSensitive(entryEmail, userEmail) ==
    entryEmail # NoEmail /\ entryEmail = userEmail
\* entry.user?.email?.toLowerCase() === userEmail.toLowerCase()
EmailMatches(entryEmail, userEmail) ==
    entryEmail # NoEmail /\ ToLowerCase(entryEmail) = ToLowerCase(userEmail)

\* finalEntries.some(...)
IsOnCall(finalEntries, userEmail) ==
    \E i \in 1..Len(finalEntries) : EmailMatches(finalEntries[i], userEmail)

RECURSIVE OnCallNames(_, _, _)
\* scheduleChecks.filter(name => name !== null), schedules named by position
OnCallNames(checks, from, to) ==
    IF from > to THEN <<>>
    ELSE (IF checks[from].state = "oncall" THEN <<from>> ELSE <<>>)
             \o OnCallNames(checks, from + 1, to)

NoCheck == [state |-> "idle", fetched |-> "none", entries |-> <<>>]

InitOnCall ==
    /\ DocIdle /\ PluginIdle
    /\ req = Off /\ sync = Off /\ details = Off /\ query = Off /\ pager = Off /\ folder = Off /\ timer = Off
    /\ \E email \in UserEmailSet :
          oncall = [pc |-> "schedules", userEmail |-> email, m |-> 0,
                    checks |-> [k \in Schedules |-> NoCheck], out |-> <<>>]

\* getSchedules settles: the request failed, or m schedules were returned and
\* the entries of each are requested
SchedulesSettle ==
    /\ oncall.pc = "schedules"
    /\ \/ oncall' = [oncall EXCEPT !.pc = "rejected"]
       \/ \E m \in 0..MaxSchedules :
             oncall' =
               IF m = 0 THEN [oncall EXCEPT !.pc = "resolved"]
               ELSE [oncall EXCEPT !.pc = "checking", !.m = m,
                        !.checks = [k \in Schedules |->
                                      IF k <= m THEN [NoCheck EXCEPT !.state = "pending"]
                                      ELSE NoCheck]]
    /\ UNCHANGED <<vault, cache, settings, clock, last, nOps, notes>>
    /\ UNCHANGED pluginVars
    /\ UNCHANGED <<req, sync, details, query, pager, folder, timer>>

\* the entries request of one schedule settles; when it is the last one,
\* Promise.all resolves and the names are filtered
EntriesSettle ==
    /\ oncall.pc = "checking"
    /\ \E k \in Schedules :
          /\ oncall.checks[k].state = "pending"
          /\ \E c \in {[state |-> "null", fetched |-> "failed", entries |-> <<>>]}
                    \cup {[state |-> IF IsOnCall(es, oncall.userEmail)
                                     THEN "oncall" ELSE "null",
                           fetched |-> "ok", entries |-> es] : es \in FinalEntriesSet} :
                LET o == [oncall EXCEPT !.checks[k] = c]
                IN  oncall' =
                      IF \E j \in Schedules : o.checks[j].state = "pending" THEN o
                      ELSE [o EXCEPT !.pc = "resolved",
                                     !.out = OnCallNames(o.checks, 1, o.m)]
    /\ UNCHANGED <<vault, cache, settings, clock, last, nOps, notes>>
    /\ UNCHANGED pluginVars
    /\ UNCHANGED <<req, sync, details, query, pager, folder, timer>>

NextOnCall == SchedulesSettle \/ EntriesSettle

SpecOnCall == InitOnCall /\ [][NextOnCall]_vars

\* the two emails are the same up to the case of their letters
C20_SameIgnoringCase(a, b) ==
    /\ Len(a) = Len(b)
    /\ \A i \in 1..Len(a) :
          \/ a[i] = b[i]
          \/ {a[i], b[i]} \in {{"a", "A"}, {"b", "B"}}
C20_UserActiveOn(k) ==
    /\ oncall.checks[k].fetched = "ok"
    /\ \E i \in 1..Len(oncall.checks[k].entries) :
          /\ oncall.checks[k].entries[i] # NoEmail
          /\ C20_SameIgnoringCase(oncall.checks[k].entries[i], oncall.userEmail)

\* C20: getOnCallSchedules returns, in schedule order, exactly the schedules
\* whose entries fetch succeeded and whose active entries hold the user's
\* email up to letter case; a failed entries fetch excludes that schedule
\* only, and the call resolves once every schedule has been checked.
C20_OnCallNamesInOrder ==
    oncall.pc # "off" =>
        /\ (oncall.pc = "checking") =>
              \E k \in Schedules : oncall.checks[k].state = "pending"
        /\ (oncall.pc = "resolved") =>
              oncall.out = SelectSeq([k \in 1..oncall.m |-> k], C20_UserActiveOn)
        /\ (oncall.pc = "rejected") => oncall.m = 0
C20_Witness ==
    /\ oncall.pc = "resolved"
    /\ oncall.m >= 3
    /\ oncall.userEmail = <<"a", "@">>
    /\ oncall.checks[1].fetched = "failed"
    /\ oncall.checks[2].entries = <<<<"b", "@">>, <<"A", "@">>>>
    /\ oncall.checks[3].entries = <<<<"a", "@">>>>
    /\ oncall.out = <<2, 3>>

\* ------------------------------------------------------------------------
\* Cursor pagination (IncidentIOAPI.getAllIncidentsPaginated, src/src/api.ts)
\* One action per settlement of `await this.request(url)`.
\* ------------------------------------------------------------------------
\* const pageSize = 250
PAGE_SIZE == 250

\* pagination_meta.after of a response: absent, the empty string, or a cursor;
\* the server chooses the cursor text, "&" is a character a URL must escape
NoCursor == [present |-> FALSE, value |-> <<>>]
CursorSet ==
    {NoCursor} \cup {[present |-> TRUE, value |-> v] : v \in {<<>>, <<"a">>, <<"a", "&">>}}
\* JavaScript truthiness of `cursor`: undefined and '' are falsy
Truthy(cursor) == cursor.present /\ cursor.value # <<>>

\* encodeURIComponent over the characters cursors are made of
RECURSIVE encodeURIComponent(_)
encodeURIComponent(str) ==
    IF str = <<>> THEN <<>>
    ELSE (IF str[1] = "&" THEN <<"%", "2", "6">> ELSE <<str[1]>>)
            \o encodeURIComponent(Tail(str))

\* the filters a caller passes
PageFilterSet ==
    [createdAfter : {NoTime, 0}, activeOnly : BOOLEAN]
\* baseUrl: the query parameters set from the filters
BaseUrl(filters) ==
    [page_size |-> PAGE_SIZE,
     created_gte |-> IF filters.createdAfter = NoTime THEN NoTime
                     ELSE filters.createdAfter \div DayLen,
     status_one_of |-> IF filters.activeOnly THEN "live,triage" ELSE "",
     after |-> <<>>]
\* url: baseUrl, with `&after=` appended when the cursor is truthy
PageUrl(filters, cursor) ==
    IF Truthy(cursor)
    THEN [BaseUrl(filters) EXCEPT !.after = encodeURIComponent(cursor.value)]
    ELSE BaseUrl(filters)

\* the rows of page number p when it holds n incidents
PageRows(p, n) == [i \in 1..n |-> <<p, i>>]
\* the page lengths a server that honours page_size returns
RowCounts == {0, 1, PAGE_SIZE - 1, PAGE_SIZE}

\* variant: the loop goes on whenever a cursor came back
MorePages_CursorOnly(n, cursor) == Truthy(cursor)

\* `if (incidents.length < pageSize) break; } while (cursor);`
MorePages(n, cursor) == ~(n < PAGE_SIZE) /\ Truthy(cursor)

NewPager(filters) ==
    [pc |-> "fetching", filters |-> filters, cursor |-> NoCursor,
     allIncidents |-> <<>>, urls |-> <<PageUrl(filters, NoCursor)>>,
     pages |-> <<>>, returned |-> <<>>]

InitPages ==
    /\ DocIdle /\ PluginIdle
    /\ req = Off /\ sync = Off /\ details = Off /\ oncall = Off /\ query = Off /\ folder = Off /\ timer = Off
    /\ \E filters \in PageFilterSet : pager = NewPager(filters)

\* the request of a page resolves: the rows are appended, the cursor is taken
\* from the response, and the loop either requests the next page or returns.
\* The server's page number MaxPages is its last one.
PageSettles ==
    /\ pager.pc = "fetching"
    /\ \E n \in RowCounts, after \in CursorSet :
          /\ Len(pager.pages) + 1 = MaxPages => ~(n = PAGE_SIZE /\ Truthy(after))
          /\ LET p == Len(pager.pages) + 1
                 allIncidents == pager.allIncidents \o PageRows(p, n)
                 seen == [pager EXCEPT !.allIncidents = allIncidents,
                                       !.cursor = after,
                                       !.pages = Append(@, [n |-> n, after |-> after])]
             IN  pager' = IF MorePages(n, after)
                          THEN [seen EXCEPT !.urls = Append(@, PageUrl(pager.filters, after))]
                          ELSE [seen EXCEPT !.pc = "returned", !.returned = allIncidents]
    /\ UNCHANGED <<vault, cache, settings, clock, last, nOps, notes>>
    /\ UNCHANGED pluginVars
    /\ UNCHANGED <<req, sync, details, oncall, query, folder, timer>>

\* the request of a page rejects: the call rejects, nothing is returned
PageFails ==
    /\ pager.pc = "fetching"
    /\ pager' = [pager EXCEPT !.pc = "rejected"]
    /\ UNCHANGED <<vault, cache, settings, clock, last, nOps, notes>>
    /\ UNCHANGED pluginVars
    /\ UNCHANGED <<req, sync, details, oncall, query, folder, timer>>

NextPages == PageSettles \/ PageFails

SpecPages == InitPages /\ [][NextPages]_vars

\* what a server reads back from an `after` parameter (decodeURIComponent)
RECURSIVE C21_Decode(_)
C21_Decode(str) ==
    IF str = <<>> THEN <<>>
    ELSE IF Len(str) >= 3 /\ SubSeq(str, 1, 3) = <<"%", "2", "6">>
         THEN <<"&">> \o C21_Decode(SubSeq(str, 4, Len(str)))
         ELSE <<str[1]>> \o C21_Decode(Tail(str))
\* the pages fetched so far, one after another
RECURSIVE C21_Concat(_, _)
C21_Concat(pages, k) ==
    IF k = 0 THEN <<>> ELSE C21_Concat(pages, k - 1) \o PageRows(k, pages[k].n)
\* page j had 250 rows and carried a (non-empty) cursor
C21_FullWithCursor(j) ==
    /\ pager.pages[j].n = 250
    /\ pager.pages[j].after.present
    /\ pager.pages[j].after.value # <<>>

\* C21: getAllIncidentsPaginated accumulates, and returns, the concatenation
\* in fetch order of the pages it fetched; the first request passes no cursor;
\* a further page is requested after page j exactly when page j had 250 rows
\* and carried a cursor, and that request passes page j's cursor; the call
\* returns after the first page with fewer than 250 rows or without a cursor.
C21_FollowsCursor ==
    pager.pc \in {"fetching", "returned"} =>
        /\ pager.allIncidents = C21_Concat(pager.pages, Len(pager.pages))
        /\ pager.pc = "returned" => pager.returned = pager.allIncidents
        /\ pager.urls[1].after = <<>>
        /\ Len(pager.urls) = Len(pager.pages) + (IF pager.pc = "fetching" THEN 1 ELSE 0)
        /\ \A j \in 1..Len(pager.pages) :
              /\ j < Len(pager.urls) <=> C21_FullWithCursor(j)
              /\ j < Len(pager.urls) =>
                    /\ C21_Decode(pager.urls[j + 1].after) = pager.pages[j].after.value
                    /\ pager.urls[j + 1].page_size = 250
        /\ pager.pc = "returned" => ~C21_FullWithCursor(Len(pager.pages))

\* a call that followed two cursors, one of them with a character to escape,
\* and returned three pages
C21_Witness ==
    /\ pager.pc = "returned"
    /\ Len(pager.pages) = 3
    /\ pager.pages[1].after.value = <<"a", "&">>
    /\ pager.pages[3].n = 249
    /\ pager.pages[3].after.present
    /\ Len(pager.returned) = 749

\* ------------------------------------------------------------------------
\* Backoff policy (IncidentIOAPI.calculateBackoff and addJitter, src/src/api.ts)
\* ------------------------------------------------------------------------
INITIAL_BACKOFF_MS == 500
MAX_BACKOFF_MS == 30000

\* Math.random() returns k / RandDen for some k in 0..RandDen-1
RandDen == 1000
\* the draws explored: the least, the next one, the middle one, the greatest
RandSet == {0, 1, RandDen \div 2, RandDen - 1}

\* the retry-after header of a 429 response: absent, or a text
NoHint == [present |-> FALSE, text |-> <<>>]
HintSet ==
    {NoHint} \cup
    {[present |-> TRUE, text |-> t] :
        t \in {<<>>, <<"5">>, <<"6", "0">>, <<"0">>, <<"-", "5">>, <<"1", ".", "5">>,
               <<"5", "s">>, <<"a", "b", "c">>, <<" ", "7">>}}

Digits == <<"0", "1", "2", "3", "4", "5", "6", "7", "8", "9">>
IsDigit(c) == \E d \in 1..10 : Digits[d] = c
DigitValue(c) == (CHOOSE d \in 1..10 : Digits[d] = c) - 1
\* the value of the longest run of decimal digits str starts with, after acc
RECURSIVE DigitRun(_, _)
DigitRun(str, acc) ==
    IF str # <<>> /\ IsDigit(str[1])
    THEN DigitRun(Tail(str), 10 * acc + DigitValue(str[1]))
    ELSE acc
\* parseInt(str, 10): leading white space is skipped, a sign is accepted, the
\* digits up to the first other character are read; NaN when there is no digit
parseInt(str) ==
    LET t == TrimStart(str)
        signed == t # <<>> /\ t[1] \in {"-", "+"}
        digits == IF signed THEN Tail(t) ELSE t
    IN  IF digits = <<>> \/ ~IsDigit(digits[1])
        THEN [nan |-> TRUE, value |-> 0]
        ELSE [nan |-> FALSE,
              value |-> IF signed /\ t[1] = "-" THEN 0 - DigitRun(digits, 0)
                        ELSE DigitRun(digits, 0)]

\* Math.pow(2, attempt) for the attempt numbers of the retry loop
RECURSIVE Pow2(_)
Pow2(n) == IF n = 0 THEN 1 ELSE 2 * Pow2(n - 1)

\* variant: the random factor spans 0.5 to 1.5
addJitter_Wide(baseMs, rand) ==
    RoundDiv(baseMs * (2 * RandDen + 4 * rand), 4 * RandDen)
\* addJitter: Math.round(baseMs * (0.75 + Math.random() * 0.5))
addJitter(baseMs, rand) ==
    RoundDiv(baseMs * (3 * RandDen + 2 * rand), 4 * RandDen)

\* variant: no ceiling
cappedMs_Uncapped(exponentialMs) == exponentialMs
\* Math.min(exponentialMs, MAX_BACKOFF_MS)
cappedMs(exponentialMs) == Min(exponentialMs, MAX_BACKOFF_MS)

\* calculateBackoff(attempt, retryAfterHeader) with the draw rand: the value
\* handed to addJitter and the delay returned
calculateBackoff(attempt, retryAfterHeader, rand) ==
    LET retryAfterSeconds == parseInt(retryAfterHeader.text)
        exponentialMs == INITIAL_BACKOFF_MS * Pow2(attempt)
        baseMs == IF /\ retryAfterHeader.present /\ retryAfterHeader.text # <<>>
                     /\ ~retryAfterSeconds.nan
                  THEN retryAfterSeconds.value * 1000
                  ELSE cappedMs(exponentialMs)
    IN  [base |-> baseMs, delay |-> addJitter(baseMs, rand)]

InitBackoff ==
    /\ DocIdle /\ PluginIdle
    /\ req = Off /\ sync = Off /\ details = Off /\ oncall = Off /\ pager = Off /\ folder = Off /\ timer = Off
    /\ \E attempt \in 0..MaxAttempt, hint \in HintSet, rand \in RandSet :
          query = [pc |-> "backoff", attempt |-> attempt, hint |-> hint, rand |-> rand,
                   base |-> 0, delay |-> 0]

\* calculateBackoff(attempt, retryAfterHeader) is called
BackoffCall ==
    /\ query.pc = "backoff"
    /\ LET out == calculateBackoff(query.attempt, query.hint, query.rand)
       IN  query' = [query EXCEPT !.pc = "delayed", !.base = out.base, !.delay = out.delay]
    /\ UNCHANGED <<vault, cache, settings, clock, last, nOps, notes>>
    /\ UNCHANGED pluginVars
    /\ UNCHANGED <<req, sync, details, oncall, pager, folder, timer>>

NextBackoff == BackoffCall

SpecBackoff == InitBackoff /\ [][NextBackoff]_vars

\* C24: with no hint, the pre-jitter backoff for attempt a is
\* min(500 * 2^a, 30000): 500 ms doubled a times, never above 30000 ms.
C24_ExponentialWithCeiling ==
    query.pc = "delayed" /\ ~query.hint.present =>
        /\ query.base = (IF 500 * 2^query.attempt < 30000
                         THEN 500 * 2^query.attempt ELSE 30000)
        /\ query.base <= 30000
        /\ query.attempt \in {6, 10} => query.base = 30000
\* attempt 10 without hint
C24_Witness ==
    /\ query.pc = "delayed" /\ ~query.hint.present
    /\ query.attempt = 10 /\ query.base = 30000

\* the hint is a decimal numeral: a non-negative integer number of seconds
C25_ValidHint(hint) ==
    /\ hint.present /\ hint.text # <<>>
    /\ \A i \in 1..Len(hint.text) :
          hint.text[i] \in {"0", "1", "2", "3", "4", "5", "6", "7", "8", "9"}
RECURSIVE C25_Numeral(_)
C25_Numeral(t) ==
    IF t = <<>> THEN 0
    ELSE 10 * C25_Numeral(SubSeq(t, 1, Len(t) - 1))
            + (CHOOSE v \in 0..9 :
                  <<"0", "1", "2", "3", "4", "5", "6", "7", "8", "9">>[v + 1] = t[Len(t)])
\* C25: a hint that is a non-negative integer number of seconds h gives the
\* pre-jitter backoff h * 1000 ms whatever the attempt; every other hint
\* (absent, empty, non-numeric, not a non-negative integer) gives the
\* exponential schedule value of the attempt.
C25_HintOrSchedule ==
    query.pc = "delayed" =>
        IF C25_ValidHint(query.hint)
        THEN query.base = C25_Numeral(query.hint.text) * 1000
        ELSE query.base = (IF 500 * 2^query.attempt < 30000
                           THEN 500 * 2^query.attempt ELSE 30000)

C27_DailyNoteCommit(d) ==
    vault'[d] # vault[d] =>
        /\ \E k \in 1..MaxCalls :
              /\ cycles[k].upd.phase = "commit" /\ cycles[k].upd.day = d
              /\ vault'[d] = [exists |-> TRUE, text |-> cycles[k].upd.out.text]
              /\ cycles'[k].upd # cycles[k].upd
              /\ cycles'[k].upd.phase # "commit"
        /\ ~last'.failed
        /\ \A e \in Days \ {d} : vault'[e] = vault[e]
        /\ notes' = notes
\* a step that changes the note of incident r is the write of the
\* createOrUpdateIncidentNote call in flight for r, with its whole content
C27_IncidentNoteCommit(r) ==
    notes'[r] # notes[r] =>
        /\ \E k \in 1..MaxCalls :
              /\ cycles[k].pc = "incidentNotes" /\ cycles'[k].pc = "today"
              /\ \E i \in 1..Len(cycles[k].result.fullIncidents) :
                    /\ cycles[k].result.fullIncidents[i].reference = r
                    /\ notes'[r].exists
                    /\ notes'[r].text =
                          <<"-", r, "-", NL,
                            IF cycles[k].result.fullIncidents[i].closed_at = NoTime
                            THEN "o" ELSE "c">>
        /\ vault' = vault
\* a call that ends because a document operation rejected changes no document
C27_FailureLeavesDocuments ==
    /\ (last' # last /\ last'.failed) => (vault' = vault /\ notes' = notes)
    /\ \A k \in 1..MaxCalls :
          (cycles[k].pc = "incidentNotes" /\ cycles'[k].pc = "done") =>
              (vault' = vault /\ notes' = notes)

\* C27: each document update is all-or-nothing: one call of updateDailyNote,
\* removeSectionFromNote or createOrUpdateIncidentNote commits to its document
\* at most once, with the complete new text, and a call that fails before
\* that commit leaves the document unchanged.
C27_AllOrNothing ==
    [][/\ \A d \in Days : C27_DailyNoteCommit(d)
       /\ \A r \in NoteRefs : C27_IncidentNoteCommit(r)
       /\ C27_FailureLeavesDocuments]_vars
\* an update of a daily note whose commit was rejected, after the incident
\* note was rewritten: the daily note still holds the text the call read
C27_Witness ==
    /\ last.failed /\ last.op = "update" /\ last.commit
    /\ vault[last.day].text = last.read
    /\ last.text # last.read
    /\ notes["1"].exists /\ notes["1"] # StaleNote

\* C29: within one updateDailyNote call every settings value used comes from
\* one and the same settings value: the section header the section is located
\* by is the section header of the settings the body was rendered with, also
\* when the user edits the settings while the call is suspended at a read.
C29_OneSettingsValue ==
    (last.op \in {"update", "update-remove"} /\ last.header # <<>>) =>
        last.header = last.s.sectionHeader

\* the ways a syncToDaily call ends
C30_Reported == {"busy", "nokey", "failed", "synced", "nonote"}
\* C30: syncToDaily never rejects: every call that has ended ended normally
\* with a reported reason (busy, no key, failed, no daily note, or synced);
\* updateDailyNote returned false when no target document exists, and true
\* when it updated or removed the section.
C30_ReportedNotThrown ==
    /\ \A k \in 1..MaxCalls :
          /\ cycles[k].pc \in {"idle", "rejected", "syncData", "incidentNotes",
                               "today", "backfill", "done"}
          /\ cycles[k].pc \in {"rejected", "done"} <=> cycles[k].outcome \in C30_Reported
          /\ cycles[k].pc = "rejected" <=> cycles[k].outcome = "busy"
    /\ (last.op \in {"update", "update-remove"} /\ ~NoteOf(last.day).exists) =>
           (~last.ok /\ ~last.failed)
    /\ (last.op \in {"update", "update-remove"} /\ last.commit /\ ~last.failed) => last.ok
\* a call turned away as busy, after a call that failed on a rejected
\* incident-note write
C30_Witness ==
    \E k, j \in 1..MaxCalls :
        /\ cycles[k].pc = "done" /\ cycles[k].outcome = "failed"
        /\ notes["1"] = StaleNote
        /\ cycles[j].pc = "rejected"
        /\ last.op = "none"

\* ------------------------------------------------------------------------
\* Front-matter values (IncidentNoteManager.yamlSafeValue, src/src/daily-note.ts)
\* ------------------------------------------------------------------------
\* the characters values are made of: a letter, a blank, a colon, a double
\* quote, a backslash, line feed, carriage return, tab, and U+0001 ("u1")
ValueChars == {"a", " ", ":", "\"", "\\", NL, "\r", "\t", "u1"}
\* the values explored: undefined, integers, strings
ValueSet ==
    {[type |-> "undefined", num |-> 0, str |-> <<>>]}
        \cup {[type |-> "number", num |-> n, str |-> <<>>] : n \in {0 - 5, 0, 7, 123}}
        \cup {[type |-> "string", num |-> 0, str |-> t] :
                 t \in UNION {[1..n -> ValueChars] : n \in 0..MaxValueLen}}

\* String(value) for an integer
RECURSIVE DecimalDigits(_)
DecimalDigits(n) ==
    IF n < 10 THEN <<Digits[n + 1]>>
    ELSE DecimalDigits(n \div 10) \o <<Digits[(n % 10) + 1]>>
NumberToString(n) == IF n < 0 THEN <<"-">> \o DecimalDigits(0 - n) ELSE DecimalDigits(n)

\* the character class of the test /[:\#\[\]\{\}\n\r"'|>]/
YamlSpecial == {":", "#", "[", "]", "{", "}", NL, "\r", "\"", "'", "|", ">"}
\* variant: leading and trailing white space is not looked at
NeedsQuoting_NoTrim(value) == \E i \in 1..Len(value) : value[i] \in YamlSpecial
\* /[...]/.test(value) || value.trim() !== value
NeedsQuoting(value) ==
    \/ \E i \in 1..Len(value) : value[i] \in YamlSpecial
    \/ Trim(value) # value

\* JSON.stringify of one character of a string
JsonEscapeChar(c) ==
    IF c = "\"" THEN <<"\\", "\"">>
    ELSE IF c = "\\" THEN <<"\\", "\\">>
    ELSE IF c = NL THEN <<"\\", "n">>
    ELSE IF c = "\r" THEN <<"\\", "r">>
    ELSE IF c = "\t" THEN <<"\\", "t">>
    ELSE IF c = "u1" THEN <<"\\", "u", "0", "0", "0", "1">>
    ELSE <<c>>
RECURSIVE JsonEscape(_)
JsonEscape(str) ==
    IF str = <<>> THEN <<>> ELSE JsonEscapeChar(str[1]) \o JsonEscape(Tail(str))
\* JSON.stringify(value) for a string
JsonStringify(str) == <<"\"">> \o JsonEscape(str) \o <<"\"">>

yamlSafeValue(value) ==
    IF value.type = "undefined" THEN <<>>
    ELSE IF value.type = "number" THEN NumberToString(value.num)
    ELSE IF NeedsQuoting(value.str) THEN JsonStringify(value.str)
    ELSE value.str

InitYaml ==
    /\ DocIdle /\ PluginIdle
    /\ req = Off /\ sync = Off /\ details = Off /\ oncall = Off /\ pager = Off /\ folder = Off /\ timer = Off
    /\ \E value \in ValueSet : query = [pc |-> "yaml", value |-> value, out |-> <<>>]

\* yamlSafeValue(value) is called
YamlCall ==
    /\ query.pc = "yaml"
    /\ query' = [query EXCEPT !.pc = "encoded", !.out = yamlSafeValue(query.value)]
    /\ UNCHANGED <<vault, cache, settings, clock, last, nOps, notes>>
    /\ UNCHANGED pluginVars
    /\ UNCHANGED <<req, sync, details, oncall, pager, folder, timer>>

NextYaml == YamlCall

SpecYaml == InitYaml /\ [][NextYaml]_vars

\* the string has one of the characters named, or white space at an end
C31_Special(str) ==
    \/ \E i \in 1..Len(str) :
          str[i] \in {":", "#", "[", "]", "{", "}", NL, "\r", "'", "\"", "|", ">"}
    \/ str # <<>> /\ str[1] \in {" ", "\t", NL, "\r"}
    \/ str # <<>> /\ str[Len(str)] \in {" ", "\t", NL, "\r"}
\* undefined gives the empty string, a number its decimal string, a string
\* without special character itself
C31_PlainCases ==
    /\ query.value.type = "undefined" => query.out = <<>>
    /\ query.value.type = "number" =>
          query.out = (IF query.value.num = 0 - 5 THEN <<"-", "5">>
                       ELSE IF query.value.num = 0 THEN <<"0">>
                       ELSE IF query.value.num = 7 THEN <<"7">>
                       ELSE <<"1", "2", "3">>)
    /\ (query.value.type = "string" /\ ~C31_Special(query.value.str)) =>
          query.out = query.value.str
\* the string with every double quote preceded by a backslash and every
\* newline replaced by backslash and n (a carriage return by backslash and
\* r), all else as it is
RECURSIVE C31_EscapeQuotesNewlines(_)
C31_EscapeQuotesNewlines(str) ==
    IF str = <<>> THEN <<>>
    ELSE (IF str[1] = "\"" THEN <<"\\", "\"">>
          ELSE IF str[1] = NL THEN <<"\\", "n">>
          ELSE IF str[1] = "\r" THEN <<"\\", "r">>
          ELSE <<str[1]>>) \o C31_EscapeQuotesNewlines(Tail(str))
\* reading a JSON string body back: each escape gives the character it names
RECURSIVE C31_Unescape(_)
C31_Unescape(t) ==
    IF t = <<>> THEN <<>>
    ELSE IF t[1] = "\\" /\ Len(t) >= 2
    THEN IF t[2] = "u" /\ Len(t) >= 6
         THEN <<"u1">> \o C31_Unescape(SubSeq(t, 7, Len(t)))
         ELSE <<(IF t[2] = "n" THEN NL ELSE IF t[2] = "r" THEN "\r"
                 ELSE IF t[2] = "t" THEN "\t" ELSE t[2])>>
                 \o C31_Unescape(SubSeq(t, 3, Len(t)))
    ELSE <<t[1]>> \o C31_Unescape(Tail(t))

\* C31 (as stated): undefined gives the empty string, a number its decimal
\* string, a string itself unless it has one of : # [ ] { } newline, carriage
\* return, a quote, | or >, or white space at an end; such a string gives
\* itself wrapped in double quotes with the embedded double quotes and
\* newlines escaped.
C31_QuotedQuotesAndNewlines ==
    query.pc = "encoded" =>
        /\ C31_PlainCases
        /\ (query.value.type = "string" /\ C31_Special(query.value.str)) =>
              query.out = <<"\"">> \o C31_EscapeQuotesNewlines(query.value.str) \o <<"\"">>

\* C31 (amended): as stated, except that in the quoted form backslashes,
\* carriage returns, tabs and the other control characters are escaped too,
\* as JSON.stringify escapes them: the quoted body holds none of these
\* characters raw and reads back as the string.
C31_QuotedJsonEscaped ==
    query.pc = "encoded" =>
        /\ C31_PlainCases
        /\ (query.value.type = "string" /\ C31_Special(query.value.str)) =>
              LET n == Len(query.out)
                  inner == SubSeq(query.out, 2, n - 1)
              IN  /\ n >= 2 /\ query.out[1] = "\"" /\ query.out[n] = "\""
                  /\ \A i \in 1..Len(inner) :
                        /\ inner[i] \notin {NL, "\r", "\t", "u1"}
                        /\ inner[i] = "\"" => i > 1 /\ inner[i - 1] = "\\"
                  /\ C31_Unescape(inner) = query.value.str
                  /\ \A i \in 1..Len(query.value.str) :
                        query.value.str[i] = NL =>
                            \E j \in 1..(Len(inner) - 1) :
                                inner[j] = "\\" /\ inner[j + 1] = "n"
\* a string with a trailing tab and a backslash
C31_Witness ==
    /\ query.pc = "encoded"
    /\ query.value.str = <<"a", "\\", "\t">>
    /\ query.out = <<"\"", "a", "\\", "\\", "\\", "t", "\"">>

\* ------------------------------------------------------------------------
\* Looking a user up (IncidentIOAPI.findUser, src/src/api.ts)
\* ------------------------------------------------------------------------
NoUser == [id |-> 0, email |-> <<>>, name |-> <<>>]
UserEmails == {<<"a", "b">>, <<"A", "@">>, <<"b", "@">>}
UserNames == {<<"B", "a">>, <<"a">>}
\* what GET /users can answer: the users in the API's order; id is the position
UserLists ==
    UNION {{[i \in 1..n |-> [id |-> i, email |-> e[i], name |-> m[i]]] :
               e \in [1..n -> UserEmails], m \in [1..n -> UserNames]} :
           n \in 0..MaxUsers}
IdentifierSet == UNION {[1..n -> {"a", "A", "b", "@"}] : n \in 0..2}

\* String.prototype.includes
Includes(str, sub) ==
    \E off \in 0..(Len(str) - Len(sub)) : SubSeq(str, off + 1, off + Len(sub)) = sub
\* variant: only the email is looked at
UserMatches_EmailOnly(u, lowerIdentifier) == Includes(ToLowerCase(u.email), lowerIdentifier)
\* the predicate given to users.find
UserMatches(u, lowerIdentifier) ==
    \/ Includes(ToLowerCase(u.email), lowerIdentifier)
    \/ Includes(ToLowerCase(u.name), lowerIdentifier)
\* users.find(...) || null
findUser(users, identifier) ==
    LET lowerIdentifier == ToLowerCase(identifier)
        hits == {i \in 1..Len(users) : UserMatches(users[i], lowerIdentifier)}
    IN  IF hits = {} THEN NoUser
        ELSE users[CHOOSE i \in hits : \A j \in hits : i <= j]

InitFindUser ==
    /\ DocIdle /\ PluginIdle
    /\ req = Off /\ sync = Off /\ details = Off /\ oncall = Off /\ pager = Off /\ folder = Off /\ timer = Off
    /\ \E identifier \in IdentifierSet :
          query = [pc |-> "getUsers", identifier |-> identifier, users |-> <<>>,
                   out |-> NoUser]

\* getUsers resolves with response.users || []: findUser resolves
GetUsersResolves ==
    /\ query.pc = "getUsers"
    /\ \E users \in UserLists :
          query' = [query EXCEPT !.pc = "resolved", !.users = users,
                                 !.out = findUser(users, query.identifier)]
    /\ UNCHANGED <<vault, cache, settings, clock, last, nOps, notes>>
    /\ UNCHANGED pluginVars
    /\ UNCHANGED <<req, sync, details, oncall, pager, folder, timer>>

\* getUsers rejects: findUser rejects with it
GetUsersRejects ==
    /\ query.pc = "getUsers"
    /\ query' = [query EXCEPT !.pc = "rejected"]
    /\ UNCHANGED <<vault, cache, settings, clock, last, nOps, notes>>
    /\ UNCHANGED pluginVars
    /\ UNCHANGED <<req, sync, details, oncall, pager, folder, timer>>

NextFindUser == GetUsersResolves \/ GetUsersRejects

SpecFindUser == InitFindUser /\ [][NextFindUser]_vars

\* two characters are the same letter in either case, or the same character
C32_SameIgnoringCase(c, d) ==
    \/ c = d
    \/ {c, d} = {"a", "A"}
    \/ {c, d} = {"b", "B"}
\* str contains sub at some offset, characters compared ignoring case
C32_Contains(str, sub) ==
    \E off \in 0..(Len(str) - Len(sub)) :
        \A j \in 1..Len(sub) : C32_SameIgnoringCase(str[off + j], sub[j])
C32_Matching(u) ==
    C32_Contains(u.email, query.identifier) \/ C32_Contains(u.name, query.identifier)
\* C32: findUser returns the earliest user of the fetched list whose email
\* or name contains the identifier ignoring case, and none when no user
\* matches.
C32_FirstMatch ==
    query.pc = "resolved" =>
        IF \E i \in 1..Len(query.users) : C32_Matching(query.users[i])
        THEN /\ query.out.id \in 1..Len(query.users)
             /\ query.out = query.users[query.out.id]
             /\ C32_Matching(query.out)
             /\ \A j \in 1..(query.out.id - 1) : ~C32_Matching(query.users[j])
        ELSE query.out = NoUser
\* the first user does not match, the later two do, one of them by its name
\* only and in another case: the earlier of the two is returned
C32_Witness ==
    /\ query.pc = "resolved"
    /\ Len(query.users) >= 2
    /\ \E i \in 1..Len(query.users) : \E j \in (i + 1)..Len(query.users) :
          /\ C32_Matching(query.users[i]) /\ C32_Matching(query.users[j])
          /\ \A k \in 1..(i - 1) : ~C32_Matching(query.users[k])
          /\ ~Includes(query.users[i].email, query.identifier)
          /\ ~Includes(query.users[i].name, query.identifier)
          /\ ~C32_Contains(query.users[i].email, query.identifier)
          /\ query.out = query.users[i]

\* ------------------------------------------------------------------------
\* The Section Reconciler: separators, concurrent writers, repeated cycles
\* ------------------------------------------------------------------------
C33_Before == Join(BeforeLines)
C33_After == Join(AfterLines)
\* the lines of the body stand at lines p+1 .. p+n of the committed text
C33_BodyAt(p) ==
    LET res == Split(last.text)
        b == Split(last.body)
    IN  /\ p + Len(b) <= Len(res)
        /\ SubSeq(res, p + 1, p + Len(b)) = b
\* C33 (as stated): in a replacement the body is set off from non-empty
\* preceding content by one empty line, and from non-empty following content
\* by one empty line; next to empty content the body has no separator.
C33_BlankLineSeparators ==
    (IsUpdate /\ last.found) =>
        LET res == Split(last.text)
            n == Len(Split(last.body))
        IN  \E p \in 0..Len(res) :
               /\ C33_BodyAt(p)
               /\ IF C33_Before = <<>> THEN p = 0
                  ELSE p >= 2 /\ res[p] = <<>> /\ res[p - 1] # <<>>
               /\ IF C33_After = <<>> THEN p + n = Len(res)
                  ELSE /\ p + n + 2 <= Len(res)
                       /\ res[p + n + 1] = <<>> /\ res[p + n + 2] # <<>>

\* C33 (amended): in a replacement the body is set off from non-empty
\* preceding content by one line break, and from non-empty following content
\* by one line break: its first line comes right after the last line before
\* the section and its last line right before the first line after the owned
\* range; next to empty content nothing is added.
C33_LineBreakSeparators ==
    (IsUpdate /\ last.found) =>
        /\ Split(last.text) =
              (IF C33_Before = <<>> THEN <<>> ELSE BeforeLines)
                  \o Split(last.body)
                  \o (IF C33_After = <<>> THEN <<>> ELSE AfterLines)
        /\ vault[last.day].text = last.text
\* text before and after the section, neither ending nor starting with an
\* empty line: the body's neighbours are the non-empty lines themselves
C33_Witness ==
    /\ IsUpdate /\ last.found /\ last.fresh
    /\ BeforeLines # <<>> /\ BeforeLines[Len(BeforeLines)] # <<>>
    /\ AfterLines # <<>> /\ AfterLines[1] # <<>>
    /\ Len(Split(last.text)) = Len(BeforeLines) + Len(Split(last.body)) + Len(AfterLines)
\* the section is the whole document: nothing is added on either side
C33_WitnessEmptySides ==
    /\ IsUpdate /\ last.found /\ last.fresh
    /\ C33_Before = <<>> /\ C33_After = <<>>
    /\ last.text = last.body

\* the text an update or a removal computes from what it read
C34_FromRead(u) ==
    IF u.kind = "update"
    THEN UpdateDailyNoteText(u.content, u.headings, u.header, u.body).text
    ELSE RemoveSectionText(u.content, u.headings, u.header).text
\* C34: the text updateDailyNote and removeSectionFromNote commit is the
\* one computed from the text read at the start of the call, whatever the
\* document holds at commit time: a change made by another writer between
\* the read and the commit is overwritten.
C34_CommitsWhatWasRead ==
    [][\A k \in 1..MaxCalls :
          (cycles[k].upd.phase = "commit" /\ cycles'[k] # cycles[k]) =>
              LET u == cycles[k].upd
              IN  /\ vault'[u.day].text = C34_FromRead(u)
                  /\ last'.read = u.content
                  /\ last'.current = vault[u.day].text
                  /\ last'.text = vault'[u.day].text]_vars
\* a lost update: the other writer's line was added after the read and is
\* gone after the commit
C34_Witness ==
    /\ last.op \in {"update", "update-remove"} /\ last.commit
    /\ ~HasEditLine(last.read)
    /\ HasEditLine(last.current)
    /\ vault[last.day].text = last.text
    /\ ~HasEditLine(vault[last.day].text)
C34_WitnessRemove ==
    /\ last.op = "update-remove" /\ C34_Witness

\* the lines of a document that are the configured section header
C35_HeaderLines(d) ==
    {i \in 1..Len(Split(vault[d].text)) : Split(vault[d].text)[i] = settings.sectionHeader}
\* C35: no reconciler call, whatever heading index it is given (fresh, stale
\* or absent), takes a document from at most one heading line equal to the
\* configured section header to more than one.
C35_AtMostOneHeading ==
    [][\A d \in Days :
          (vault[d].exists /\ Cardinality(C35_HeaderLines(d)) <= 1)
              => Cardinality(C35_HeaderLines(d)') <= 1]_vars

\* ------------------------------------------------------------------------
\* The in-flight flag over cycles that fail (checked under SpecFaults)
\* ------------------------------------------------------------------------
C36_Running == {"syncData", "incidentNotes", "today", "backfill"}
\* C36: when a cycle ends, by success or by a failure of the API or of a
\* document write, the in-flight flag is cleared, and a syncToDaily call made
\* while it is clear (with an API client) is accepted; a call that returns
\* early (guard rejection, no API client) leaves the flag as it was.
C36_FlagClearedAtEnd ==
    /\ []((\A k \in 1..MaxCalls : cycles[k].pc \notin C36_Running) => ~isSyncing)
    /\ [][/\ \A k \in 1..MaxCalls :
               /\ (cycles[k].pc \in C36_Running /\ cycles'[k].pc = "done") => ~isSyncing'
               /\ (cycles[k].pc = "idle" /\ cycles'[k].pc = "rejected") =>
                      (isSyncing /\ isSyncing')
               /\ (cycles[k].pc = "idle" /\ cycles'[k].pc = "done") =>
                      (~api /\ isSyncing' = isSyncing)
          /\ ( /\ nCalls' # nCalls /\ api
                /\ (\E k \in 1..MaxCalls : cycles[k].pc = "done")
                /\ (\A j \in 1..MaxCalls : cycles[j].pc \notin C36_Running) )
             => (cycles'[nCalls'].pc = "syncData" /\ isSyncing')]_vars
\* a cycle in which a daily-note write was rejected, and the next call accepted
C36_Witness ==
    \E k, j \in 1..MaxCalls :
        /\ k < j
        /\ cycles[k].pc = "done"
        /\ last.failed /\ last.commit
        /\ cycles[j].pc = "syncData" /\ isSyncing
\* a cycle that failed on a rejected incident-note write
C36_WitnessNote ==
    \E k, j \in 1..MaxCalls :
        /\ k < j
        /\ cycles[k].pc = "done" /\ cycles[k].outcome = "failed"
        /\ notes["1"] = StaleNote
        /\ cycles[j].pc = "syncData" /\ isSyncing
\* a cycle that failed on the API
C36_WitnessApi ==
    \E k, j \in 1..MaxCalls :
        /\ k < j
        /\ cycles[k].pc = "done" /\ cycles[k].outcome = "failed" /\ last.op = "none"
        /\ ~cycles[k].wrote
        /\ cycles[j].pc = "syncData"

\* ------------------------------------------------------------------------
\* The SyncResult of syncData (src/src/api.ts): summaries and detail records
\* ------------------------------------------------------------------------
\* the sub-fetches of one incident that fail: none, the timeline, all five
FailurePatterns == {{}, {"updates"}, SubNames}
\* the incident list as the API returned it: references by position
IncidentLists ==
    UNION {{[j \in 1..n |-> j], [j \in 1..n |-> n + 1 - j]} : n \in 0..MaxItems}

\* variant: a failed timeline fetch rejects the detail fetch
ProcessorOutcome_TimelineNeeded(failedSubs) ==
    IF "updates" \in failedSubs THEN "rejected" ELSE "fulfilled"
\* how getFullIncidentDetails settles: each of the five sub-fetches catches
\* its own failure and resolves with [], so Promise.all and the call resolve
ProcessorOutcome(failedSubs) == "fulfilled"

\* incidents.map(incident => ({reference, name, status}))
IncidentResults(list) == [j \in 1..Len(list) |-> [reference |-> list[j]]]
\* the value syncData returns: the summaries, and the detail records in the
\* order processInBatches collected them
SyncResultOf(sy) ==
    [incidents |-> IncidentResults(sy.list),
     fullIncidents |-> [j \in 1..Len(sy.results) |->
                           [reference |-> sy.list[sy.results[j]],
                            failed |-> sy.fails[sy.results[j]]]]]
NoSyncResult == [incidents |-> <<>>, fullIncidents |-> <<>>]
\* processInBatches at the top of its loop; syncData returns when it is over
ResultEnterBatch(sy, i) ==
    LET next == EnterBatch(sy, i)
    IN  IF next.pc = "resolved" THEN [next EXCEPT !.out = SyncResultOf(next)] ELSE next

\* the user is found, the on-call lookup and the incident list have resolved
InitResult ==
    /\ DocIdle /\ PluginIdle
    /\ req = Off /\ details = Off /\ oncall = Off /\ query = Off /\ pager = Off /\ folder = Off /\ timer = Off
    /\ \E list \in IncidentLists :
          sync = ResultEnterBatch([pc |-> "gather", list |-> list, n |-> Len(list), i |-> 0,
                                   items |-> [k \in Items |-> "waiting"],
                                   fails |-> [k \in Items |-> {}],
                                   lastSettled |-> 0, results |-> <<>>,
                                   out |-> NoSyncResult], 0)

\* getFullIncidentDetails of one running incident settles, some of its
\* sub-fetches having failed; the last one of a batch lets the loop run on
DetailsSettle ==
    /\ sync.pc = "batch"
    /\ \E k \in Items, failedSubs \in FailurePatterns :
          /\ sync.items[k] = "running"
          /\ LET sy == [sync EXCEPT !.items[k] = ProcessorOutcome(failedSubs),
                                    !.fails[k] = failedSubs, !.lastSettled = k]
                 batch == BatchItems(sync.i, sync.n)
             IN  sync' =
                   IF \E j \in Items : sy.items[j] = "running" THEN sy
                   ELSE LET from == sync.i + 1
                            to == from + Cardinality(batch) - 1
                            done == [sy EXCEPT !.results =
                                        Collect(sy.results, sy.items, from, to)]
                        IN  IF sync.i + BATCH_SIZE < sync.n
                            THEN [done EXCEPT !.pc = "delay"]
                            ELSE ResultEnterBatch(done, sync.i + BATCH_SIZE)
    /\ UNCHANGED <<vault, cache, settings, clock, last, nOps, notes>>
    /\ UNCHANGED pluginVars
    /\ UNCHANGED <<req, details, oncall, query, pager, folder, timer>>

\* the pause between two batches ends
ResultDelayEnds ==
    /\ sync.pc = "delay"
    /\ sync' = ResultEnterBatch(sync, sync.i + BATCH_SIZE)
    /\ UNCHANGED <<vault, cache, settings, clock, last, nOps, notes>>
    /\ UNCHANGED pluginVars
    /\ UNCHANGED <<req, details, oncall, query, pager, folder, timer>>

NextResult == DetailsSettle \/ ResultDelayEnds

SpecResult == InitResult /\ [][NextResult]_vars

\* C37: in the SyncResult syncData returns, fullIncidents is as long as
\* incidents and fullIncidents[i] has the reference of incidents[i], whatever
\* sub-fetches failed.
C37_Aligned ==
    sync.pc = "resolved" =>
        /\ Len(sync.out.incidents) = Len(sync.list)
        /\ Len(sync.out.fullIncidents) = Len(sync.out.incidents)
        /\ \A i \in 1..Len(sync.out.incidents) :
              /\ sync.out.incidents[i].reference = sync.list[i]
              /\ sync.out.fullIncidents[i].reference = sync.out.incidents[i].reference
\* two batches; every sub-fetch of the first incident failed, the timeline
\* of the last one; the first incident of the last batch settled last
C37_Witness ==
    /\ sync.pc = "resolved"
    /\ sync.n >= BATCH_SIZE + 1
    /\ sync.list[1] # 1
    /\ sync.out.fullIncidents[1].failed = SubNames
    /\ sync.out.fullIncidents[sync.n].failed = {"updates"}
    /\ sync.lastSettled = BATCH_SIZE + 1

\* ------------------------------------------------------------------------
\* Incident notes in their folder (IncidentNoteManager.createOrUpdateIncidentNote,
\* findExistingNoteByIncidentId; src/src/daily-note.ts)
\* ------------------------------------------------------------------------
\* two incidents; getNotePath gives the reference-named path of each
NoteIncidents == {[id |-> <<"a">>, reference |-> "INC-1"],
                  [id |-> <<"b">>, reference |-> "INC-2"]}
\* the paths of the folder: the reference-named ones and two other names
NotePaths == {"INC-1", "INC-2", "n1", "n2"}
NoDoc == [exists |-> FALSE, idLine |-> <<>>, status |-> "-"]
\* the first line formatFrontmatter writes: `incident_id: ${yamlSafeValue(id)}`
\* ("i:" stands for the key), and the status the content was rendered with
NoteContent(incident, status) ==
    [exists |-> TRUE,
     idLine |-> <<"i", ":", " ">>
                    \o yamlSafeValue([type |-> "string", num |-> 0, str |-> incident.id]),
     status |-> status]
\* variant: no document carries an id
CarriesId_Never(doc, incidentId) == FALSE
\* the header block has a line incident_id:\s*(.+)$ whose value, trimmed, is the id
CarriesId(doc, incidentId) ==
    /\ doc.exists
    /\ Len(doc.idLine) > 2 /\ SubSeq(doc.idLine, 1, 2) = <<"i", ":">>
    /\ LET value == TrimStart(SubSeq(doc.idLine, 3, Len(doc.idLine)))
       IN  value # <<>> /\ Trim(value) = incidentId
\* the files findExistingNoteByIncidentId can return
IdMatches(files, incidentId) == {q \in NotePaths : CarriesId(files[q], incidentId)}

NoNoteOp == [kind |-> "none", incident |-> <<>>, target |-> "-"]
InitNotes ==
    /\ DocIdle /\ PluginIdle
    /\ req = Off /\ sync = Off /\ details = Off /\ oncall = Off /\ query = Off /\ pager = Off /\ timer = Off
    /\ folder = [pc |-> "notes", files |-> [q \in NotePaths |-> NoDoc], renames |-> 0,
                 op |-> NoNoteOp]

\* createOrUpdateIncidentNote(incident): the document at the reference-named
\* path is overwritten; failing that, a document of the folder carrying the id
\* (the first one in the store's file order); failing that, one is created
CreateOrUpdateIncidentNote ==
    /\ folder.pc = "notes"
    /\ \E incident \in NoteIncidents, status \in {"o", "c"} :
          LET notePath == incident.reference
              content == NoteContent(incident, status)
              byId == IdMatches(folder.files, incident.id)
          IN  IF folder.files[notePath].exists
              THEN folder' = [folder EXCEPT !.files[notePath] = content,
                                 !.op = [kind |-> "path", incident |-> incident.id,
                                         target |-> notePath]]
              ELSE IF byId # {}
              THEN \E q \in byId :
                      folder' = [folder EXCEPT !.files[q] = content,
                                    !.op = [kind |-> "id", incident |-> incident.id,
                                            target |-> q]]
              ELSE folder' = [folder EXCEPT !.files[notePath] = content,
                                 !.op = [kind |-> "create", incident |-> incident.id,
                                         target |-> notePath]]
    /\ UNCHANGED <<vault, cache, settings, clock, last, nOps, notes>>
    /\ UNCHANGED pluginVars
    /\ UNCHANGED <<req, sync, details, oncall, query, pager, timer>>

\* the user renames a note of the folder to a free name of the folder
UserRename ==
    /\ folder.pc = "notes"
    /\ folder.renames < MaxRenames
    /\ \E from \in NotePaths, to \in NotePaths :
          /\ folder.files[from].exists
          /\ ~folder.files[to].exists
          /\ folder' = [folder EXCEPT !.files[to] = folder.files[from],
                                      !.files[from] = NoDoc,
                                      !.renames = folder.renames + 1,
                                      !.op = NoNoteOp]
    /\ UNCHANGED <<vault, cache, settings, clock, last, nOps, notes>>
    /\ UNCHANGED pluginVars
    /\ UNCHANGED <<req, sync, details, oncall, query, pager, timer>>

NextNotes == CreateOrUpdateIncidentNote \/ UserRename

SpecNotes == InitNotes /\ [][NextNotes]_vars

\* the documents of the folder whose header block carries the id, read off
\* the line as written
C38_Carrying(files, incidentId) ==
    {q \in NotePaths : files[q].exists /\ files[q].idLine = <<"i", ":", " ">> \o incidentId}
\* C38: createOrUpdateIncidentNote creates a document only when no document
\* is at the reference-named path and none in the folder carries the id;
\* otherwise it overwrites the one at the path, or else one carrying the id.
\* Hence the folder holds at most one document per incident id after any
\* sequence of syncs and renames.
C38_OneNotePerIncident ==
    /\ [](folder.pc = "notes" =>
             \A incident \in NoteIncidents :
                 Cardinality(C38_Carrying(folder.files, incident.id)) <= 1)
    /\ [][(folder.pc = "notes" /\ folder'.op # NoNoteOp) =>
             LET o == folder'.op
                 path == IF o.incident = <<"a">> THEN "INC-1" ELSE "INC-2"
             IN  /\ \A q \in NotePaths : q # o.target => folder'.files[q] = folder.files[q]
                 /\ folder'.files[o.target].exists
                 /\ C38_Carrying(folder'.files, o.incident) # {}
                 /\ ~folder.files[o.target].exists <=>
                        ( /\ ~folder.files[path].exists
                          /\ C38_Carrying(folder.files, o.incident) = {} )
                 /\ folder.files[path].exists => o.target = path
                 /\ (~folder.files[path].exists /\ folder.files[o.target].exists) =>
                        o.target \in C38_Carrying(folder.files, o.incident)]_vars

\* ------------------------------------------------------------------------
\* Auto-sync timers (onload, onunload, saveSettings, setupAutoSync,
\* clearAutoSync in src/unnamed/part_002; the API key buttons and the
\* auto-sync settings of the settings tab in src/src/daily-note.ts)
\* ------------------------------------------------------------------------
\* options of the frequency dropdown (two of them): 5 and 10 minutes
FrequencyOptions == {300000, 600000}
\* values of settings.autoSyncFrequency in the stored settings: not positive,
\* or one of the options
FrequencySet == {0} \cup FrequencyOptions

\* if (this.autoSyncInterval) { window.clearInterval(...); ... = null }
clearAutoSync(t) ==
    IF t.handle THEN [t EXCEPT !.active = t.active - 1, !.handle = FALSE] ELSE t
\* the condition under which setupAutoSync sets an interval
AutoSyncWanted(t) == t.enabled /\ t.frequency > 0 /\ t.api
\* setupAutoSync(): the old interval is cleared, a new one set if wanted
setupAutoSync(t) ==
    LET c == clearAutoSync(t)
    IN  IF AutoSyncWanted(c) THEN [c EXCEPT !.active = c.active + 1, !.handle = TRUE]
        ELSE c

NoFire == [afterUnload |-> FALSE, started |-> FALSE]
\* the plugin when onload returns: settings loaded, the API client built if a
\* key is stored, the startup timeout pending, no interval yet
InitAuto ==
    /\ DocIdle /\ PluginIdle
    /\ req = Off /\ sync = Off /\ details = Off /\ oncall = Off /\ query = Off /\ pager = Off /\ folder = Off
    /\ \E enabled \in BOOLEAN, frequency \in FrequencySet, key \in BOOLEAN :
          timer = [pc |-> "loaded", enabled |-> enabled, frequency |-> frequency,
                   api |-> key, startup |-> TRUE, active |-> 0, handle |-> FALSE,
                   act |-> "none", completed |-> "none", fire |-> NoFire]

AutoUnchanged ==
    /\ UNCHANGED <<vault, cache, settings, clock, last, nOps, notes>>
    /\ UNCHANGED pluginVars
    /\ UNCHANGED <<req, sync, details, oncall, query, pager, folder>>

\* the startup timeout (AUTO_SYNC_STARTUP_DELAY_MS) fires: setupAutoSync()
StartupDelayEnds ==
    /\ timer.pc # "off" /\ timer.startup
    /\ timer' = [setupAutoSync(timer) EXCEPT !.startup = FALSE, !.completed = "startup"]
    /\ AutoUnchanged

\* the user switches auto-sync or picks a frequency in the settings tab:
\* the setting is assigned and saveSettings() is called, which awaits saveData
EditAutoSync ==
    /\ timer.pc = "loaded" /\ timer.act = "none"
    /\ \E enabled \in BOOLEAN, frequency \in FrequencyOptions \cup {timer.frequency} :
          /\ <<enabled, frequency>> # <<timer.enabled, timer.frequency>>
          /\ enabled = timer.enabled \/ frequency = timer.frequency
          /\ timer' = [timer EXCEPT !.enabled = enabled, !.frequency = frequency,
                                    !.act = "edit-save", !.completed = "none"]
    /\ AutoUnchanged

\* the Save key button: setSecret resolves, apiKeyConfigured is set and
\* saveSettings() is called
SaveKeyClick ==
    /\ timer.pc = "loaded" /\ timer.act = "none"
    /\ timer' = [timer EXCEPT !.act = "key-save", !.completed = "none"]
    /\ AutoUnchanged

\* the Clear button: deleteSecret resolves, apiKeyConfigured is unset and
\* saveSettings() is called
ClearKeyClick ==
    /\ timer.pc = "loaded" /\ timer.act = "none"
    /\ timer' = [timer EXCEPT !.act = "clear-save", !.completed = "none"]
    /\ AutoUnchanged

\* saveData resolves: saveSettings hands the settings to the managers and
\* calls setupAutoSync(); the key buttons go on to reinitializeApi()
SaveSettingsResumes ==
    /\ timer.pc # "off" /\ timer.act \in {"edit-save", "key-save", "clear-save"}
    /\ LET t == setupAutoSync(timer)
       IN  timer' = IF timer.act = "edit-save"
                    THEN [t EXCEPT !.act = "none", !.completed = "edit"]
                    ELSE IF timer.act = "key-save" THEN [t EXCEPT !.act = "key-reinit"]
                    ELSE [t EXCEPT !.act = "clear-reinit"]
    /\ AutoUnchanged

\* reinitializeApi() resolves: this.api is the new client, or null
ReinitializeApiResolves ==
    /\ timer.pc # "off" /\ timer.act \in {"key-reinit", "clear-reinit"}
    /\ timer' = [timer EXCEPT !.api = (timer.act = "key-reinit"), !.act = "none",
                              !.completed = IF timer.act = "key-reinit"
                                            THEN "save-key" ELSE "clear-key"]
    /\ AutoUnchanged

\* onunload(): clearAutoSync()
Unload ==
    /\ timer.pc = "loaded"
    /\ timer' = [clearAutoSync(timer) EXCEPT !.pc = "unloaded"]
    /\ AutoUnchanged

\* an interval fires: syncToDaily() is called; with an API client (and no
\* cycle in flight) a sync cycle starts
IntervalFires ==
    /\ timer.pc # "off" /\ timer.active > 0
    /\ timer' = [timer EXCEPT !.fire = [afterUnload |-> timer.pc = "unloaded",
                                        started |-> timer.api]]
    /\ AutoUnchanged

NextAuto ==
    \/ StartupDelayEnds
    \/ EditAutoSync
    \/ SaveKeyClick
    \/ ClearKeyClick
    \/ SaveSettingsResumes
    \/ ReinitializeApiResolves
    \/ Unload
    \/ IntervalFires

SpecAuto == InitAuto /\ [][NextAuto]_vars

\* C39: after startup and after every settings action (a setting saved, an
\* API key saved, the API key cleared) an auto-sync interval is active
\* exactly when auto-sync is enabled, the frequency is positive and an API
\* client is configured; at most one interval is active at any time.
C39_TimerIffWanted ==
    timer.pc # "off" =>
        /\ timer.active <= 1
        /\ ( /\ timer.pc = "loaded" /\ ~timer.startup
              /\ timer.act = "none" /\ timer.completed # "none" ) =>
              (timer.active = 1 <=> (timer.enabled /\ timer.frequency > 0 /\ timer.api))

\* C40: once onunload has run no auto-sync interval is active and no
\* interval starts a sync cycle, whenever the unload happens.
C40_NoTimerAfterUnload ==
    timer.pc = "unloaded" =>
        /\ timer.active = 0
        /\ ~(timer.fire.afterUnload /\ timer.fire.started)

====
